---- MODULE Spec2Model ----
(***************************************************************************)
(* VeiledPredictionMarket (contracts/VeiledPredictionMarket.sol): a ledger *)
(* of predictions with 2-4 options on which each address may place one     *)
(* bet.  The aggregates and the bets are FHE ciphertext handles; the model *)
(* keeps, for every handle the substrate has produced, the plaintext       *)
(* behind it and the set of addresses allowed to decrypt it, and the ether *)
(* the contract holds.                                                     *)
(*                                                                         *)
(* Every external function is an operator from the ledger and the call's   *)
(* inputs to the call's outcome (new ledger, error, return value); an      *)
(* action applies one call as one EVM transaction.                         *)
(***************************************************************************)
EXTENDS Integers, Sequences, FiniteSets, TLC

VARIABLES predictions, bets, ciphertexts, acl, events, balance, aggregates, granted,
          txCount, lastTx

vars == <<predictions, bets, ciphertexts, acl, events, balance, aggregates, granted,
          txCount, lastTx>>

(***************************************************************************)
(* Bounds of the model.                                                    *)
(***************************************************************************)
\* predictions that may be created in one behaviour
MaxPredictions == 2
\* transactions that may succeed in one behaviour (reverting ones are not counted)
MaxTx == 4
\* options arrays of length 0..MaxOptionsLen are submitted to createPrediction
MaxOptionsLen == 5
\* plaintexts 0..MaxChoice are submitted as the encrypted choice (euint8)
MaxChoice == 2

\* msg.sender ranges over the externally owned accounts
Users == {"alice", "bob"}
\* address(this), the grantee of FHE.allowThis
This == "this"
Titles == {"ETH ETF approval"}
OptionNames == <<"Approve", "Reject", "Delay", "Withdraw", "Other", "None", "Any">>
Timestamps == {1700000000}

(***************************************************************************)
(* Unsigned integers wider than TLC's own: little-endian sequences of      *)
(* 16-bit limbs.  A uint256 (msg.value) has 16 limbs, a uint64 has 4.      *)
(***************************************************************************)
LimbBase == 2^16

Uint256Of(n) == [i \in 1..16 |-> IF i = 1 THEN n ELSE 0]

Uint64Of(n) == [i \in 1..4 |-> IF i = 1 THEN n ELSE 0]

\* type(uint64).max as a uint256
MaxUint64 == [i \in 1..16 |-> IF i <= 4 THEN LimbBase - 1 ELSE 0]

\* 2^64 as a uint256
TwoPow64 == [i \in 1..16 |-> IF i = 5 THEN 1 ELSE 0]

\* a > b on two unsigned integers of the same number of limbs
Gt(a, b) ==
    \E i \in 1..Len(a) :
        /\ a[i] > b[i]
        /\ \A j \in (i + 1)..Len(a) : a[j] = b[j]

\* ToUint64 that keeps bits 16..79 in place of bits 0..63
ToUint64_Shifted(x) == SubSeq(x, 2, 5)

\* the explicit conversion uint64(x) of a uint256: the low 64 bits
ToUint64(x) == SubSeq(x, 1, 4)

\* carry into limb i of a + b
RECURSIVE Carry(_, _, _)
Carry(a, b, i) ==
    IF i = 1 THEN 0 ELSE (a[i - 1] + b[i - 1] + Carry(a, b, i - 1)) \div LimbBase

\* a + b modulo 2^64 on two 4-limb integers
AddMod64(a, b) == [i \in 1..4 |-> (a[i] + b[i] + Carry(a, b, i)) % LimbBase]

\* a + b modulo 2^256 on two 16-limb integers
AddMod256(a, b) == [i \in 1..16 |-> (a[i] + b[i] + Carry(a, b, i)) % LimbBase]

\* the values of msg.value the model submits
Values == {Uint256Of(0), Uint256Of(1), MaxUint64, TwoPow64}

(***************************************************************************)
(* The FHE substrate as the contract uses it.  A handle is a positive      *)
(* number naming an entry of `ciphertexts` (the plaintext behind it);      *)
(* handle 0 is the uninitialised handle of a storage slot never written,   *)
(* which the library reads as an encryption of 0.  Every operation returns *)
(* a handle not seen before.                                               *)
(***************************************************************************)
NoHandle == 0

\* plaintext behind a euint32 / euint8 handle
Decrypt32(cts, h) == IF h = NoHandle THEN 0 ELSE cts[h]

\* plaintext behind a euint64 handle
Decrypt64(cts, h) == IF h = NoHandle THEN Uint64Of(0) ELSE cts[h]

\* FHE.add on euint64: addition modulo 2^64
FHE_add64(a, b) == AddMod64(a, b)

\* FHE.add on euint32.  The counters of the model stay far below 2^32 (one
\* bet per address), so the sum is never reduced.
FHE_add32(a, b) == a + b

\* FHE.eq
FHE_eq(a, b) == a = b

\* FHE.select
FHE_select(c, x, y) == IF c THEN x ELSE y

\* FHE.allowThis / FHE.allow of every handle of hs to address a
Allow(grants, hs, a) == grants \cup {<<h, a>> : h \in hs}

\* the decrypt-permission predicate of the substrate
IsAllowed(grants, h, a) == <<h, a>> \in grants

(***************************************************************************)
(* Contract storage.                                                       *)
(***************************************************************************)
\* the value of a Bet slot of the mapping that was never written
ZeroBet == [choice |-> NoHandle, amount |-> NoHandle, exists |-> FALSE]

\* _bets[predictionId][user]
BetOf(bs, predictionId, user) ==
    IF <<predictionId, user>> \in DOMAIN bs THEN bs[<<predictionId, user>>] ELSE ZeroBet

\* _predictions[predictionId] (ids are zero-based)
PredictionOf(ps, predictionId) == ps[predictionId + 1]

Ledger ==
    [predictions |-> predictions,
     bets        |-> bets,
     ciphertexts |-> ciphertexts,
     acl         |-> acl,
     events      |-> events,
     balance     |-> balance,
     aggregates  |-> aggregates]

\* Revert with the revert statement replaced by "emit an error record and return"
Revert_EmitAndReturn(L, error) ==
    [ledger |-> [L EXCEPT !.events = Append(@, [name |-> error])],
     err    |-> error,
     ret    |-> -1]

\* a call that reverts: the EVM discards every effect of the transaction
Revert(L, error) == [ledger |-> L, err |-> error, ret |-> -1]

\* a call that returns
Return(L, value) == [ledger |-> L, err |-> "", ret |-> value]

(***************************************************************************)
(* createPrediction                                                        *)
(***************************************************************************)
\* createPredictionError with the upper limit off by one
createPredictionError_UpTo3(options) ==
    IF Len(options) < 2 \/ Len(options) > 3 THEN "InvalidOptions" ELSE ""

\* createPredictionError with the lower limit off by one
createPredictionError_From1(options) ==
    IF Len(options) < 1 \/ Len(options) > 4 THEN "InvalidOptions" ELSE ""

\* the length check of createPrediction
createPredictionError(options) ==
    IF Len(options) < 2 \/ Len(options) > 4 THEN "InvalidOptions" ELSE ""

\* NewPredictionId without the "- 1"
NewPredictionId_Length(L) == Len(L.predictions) + 1

\* the id createPrediction returns: _predictions.length - 1 after the push
NewPredictionId(L) == (Len(L.predictions) + 1) - 1

\* createPrediction that stores the new prediction in front of the others
createPrediction_Prepends(L, sender, timestamp, title, options) ==
    IF createPredictionError(options) # ""
    THEN Revert(L, createPredictionError(options))
    ELSE
        LET n  == Len(options)
            h0 == Len(L.ciphertexts)
            \* optionCounts[i] = FHE.asEuint32(0) for i < n; the rest stay unwritten
            counts == [i \in 1..4 |-> IF i <= n THEN h0 + i ELSE NoHandle]
            hStaked == h0 + n + 1
            hBets   == h0 + n + 2
            prediction ==
                [title        |-> title,
                 options      |-> options,
                 optionCount  |-> n,
                 createdAt    |-> timestamp,
                 creator      |-> sender,
                 totalStaked  |-> hStaked,
                 totalBets    |-> hBets,
                 optionCounts |-> counts]
            fresh == {h0 + i : i \in 1..n} \cup {hStaked, hBets}
            predictionId == NewPredictionId(L)
        IN  Return(
              [L EXCEPT
                 !.predictions = <<prediction>> \o @,
                 !.ciphertexts = @ \o [i \in 1..n |-> 0] \o <<Uint64Of(0), 0>>,
                 !.acl         = Allow(@, fresh, This),
                 !.aggregates  = Append(@, fresh),
                 !.events      = Append(@, [name         |-> "PredictionCreated",
                                            predictionId |-> predictionId,
                                            creator      |-> sender,
                                            title        |-> title,
                                            optionCount  |-> n])],
              predictionId)

\* createPrediction without FHE.allowThis on totalStaked and totalBets
createPrediction_NoAllowThisTotals(L, sender, timestamp, title, options) ==
    IF createPredictionError(options) # ""
    THEN Revert(L, createPredictionError(options))
    ELSE
        LET n  == Len(options)
            h0 == Len(L.ciphertexts)
            \* optionCounts[i] = FHE.asEuint32(0) for i < n; the rest stay unwritten
            counts == [i \in 1..4 |-> IF i <= n THEN h0 + i ELSE NoHandle]
            hStaked == h0 + n + 1
            hBets   == h0 + n + 2
            prediction ==
                [title        |-> title,
                 options      |-> options,
                 optionCount  |-> n,
                 createdAt    |-> timestamp,
                 creator      |-> sender,
                 totalStaked  |-> hStaked,
                 totalBets    |-> hBets,
                 optionCounts |-> counts]
            fresh == {h0 + i : i \in 1..n} \cup {hStaked, hBets}
            predictionId == NewPredictionId(L)
        IN  Return(
              [L EXCEPT
                 !.predictions = Append(@, prediction),
                 !.ciphertexts = @ \o [i \in 1..n |-> 0] \o <<Uint64Of(0), 0>>,
                 !.acl         = Allow(@, {h0 + i : i \in 1..n}, This),
                 !.aggregates  = Append(@, fresh),
                 !.events      = Append(@, [name         |-> "PredictionCreated",
                                            predictionId |-> predictionId,
                                            creator      |-> sender,
                                            title        |-> title,
                                            optionCount  |-> n])],
              predictionId)

createPrediction(L, sender, timestamp, title, options) ==
    IF createPredictionError(options) # ""
    THEN Revert(L, createPredictionError(options))
    ELSE
        LET n  == Len(options)
            h0 == Len(L.ciphertexts)
            \* optionCounts[i] = FHE.asEuint32(0) for i < n; the rest stay unwritten
            counts == [i \in 1..4 |-> IF i <= n THEN h0 + i ELSE NoHandle]
            hStaked == h0 + n + 1
            hBets   == h0 + n + 2
            prediction ==
                [title        |-> title,
                 options      |-> options,
                 optionCount  |-> n,
                 createdAt    |-> timestamp,
                 creator      |-> sender,
                 totalStaked  |-> hStaked,
                 totalBets    |-> hBets,
                 optionCounts |-> counts]
            fresh == {h0 + i : i \in 1..n} \cup {hStaked, hBets}
            predictionId == NewPredictionId(L)
        IN  Return(
              [L EXCEPT
                 !.predictions = Append(@, prediction),
                 !.ciphertexts = @ \o [i \in 1..n |-> 0] \o <<Uint64Of(0), 0>>,
                 !.acl         = Allow(@, fresh, This),
                 !.aggregates  = Append(@, fresh),
                 !.events      = Append(@, [name         |-> "PredictionCreated",
                                            predictionId |-> predictionId,
                                            creator      |-> sender,
                                            title        |-> title,
                                            optionCount  |-> n])],
              predictionId)

(***************************************************************************)
(* placeBet                                                                *)
(***************************************************************************)
\* placeBetError without the check of bet.exists
placeBetError_NoBetCheck(L, sender, predictionId, value) ==
    IF predictionId >= Len(L.predictions) THEN "InvalidPrediction"
    ELSE IF value = Uint256Of(0) \/ Gt(value, MaxUint64) THEN "InvalidBetAmount"
    ELSE ""

\* placeBetError with ">= type(uint64).max" in place of "> type(uint64).max"
placeBetError_GeMax(L, sender, predictionId, value) ==
    IF predictionId >= Len(L.predictions) THEN "InvalidPrediction"
    ELSE IF value = Uint256Of(0) \/ ~Gt(MaxUint64, value) THEN "InvalidBetAmount"
    ELSE IF BetOf(L.bets, predictionId, sender).exists THEN "BetAlreadyPlaced"
    ELSE ""

\* placeBetError with the check of bet.exists moved before the check of msg.value
placeBetError_BetCheckFirst(L, sender, predictionId, value) ==
    IF predictionId >= Len(L.predictions) THEN "InvalidPrediction"
    ELSE IF BetOf(L.bets, predictionId, sender).exists THEN "BetAlreadyPlaced"
    ELSE IF value = Uint256Of(0) \/ Gt(value, MaxUint64) THEN "InvalidBetAmount"
    ELSE ""

\* placeBetError that looks for a bet of the sender on any prediction
placeBetError_AnyPrediction(L, sender, predictionId, value) ==
    IF predictionId >= Len(L.predictions) THEN "InvalidPrediction"
    ELSE IF value = Uint256Of(0) \/ Gt(value, MaxUint64) THEN "InvalidBetAmount"
    ELSE IF (\E k \in 0..(Len(L.predictions) - 1) : BetOf(L.bets, k, sender).exists) THEN "BetAlreadyPlaced"
    ELSE ""

\* the three checks of placeBet, in the order of the code
placeBetError(L, sender, predictionId, value) ==
    IF predictionId >= Len(L.predictions) THEN "InvalidPrediction"
    ELSE IF value = Uint256Of(0) \/ Gt(value, MaxUint64) THEN "InvalidBetAmount"
    ELSE IF BetOf(L.bets, predictionId, sender).exists THEN "BetAlreadyPlaced"
    ELSE ""

\* NewBalance that holds the last msg.value only
NewBalance_KeepsLast(L, value) == value

\* address(this).balance after the payable call: msg.value is credited
NewBalance(L, value) == AddMod256(L.balance, value)

\* Increment that compares the choice with the one-based index of the option
Increment_OneBased(choice, i) == FHE_select(FHE_eq(choice, i + 1), 1, 0)

\* Increment that counts the choice for every option up to it
Increment_UpTo(choice, i) == FHE_select(choice >= i, 1, 0)

\* FHE.select(FHE.eq(choice, FHE.asEuint8(i)), one, zero)
Increment(choice, i) == FHE_select(FHE_eq(choice, i), 1, 0)

\* NewTotalStaked that stores the stake in place of adding it
NewTotalStaked_Overwrite(L, prediction, amount) == amount

\* NewTotalStaked that subtracts the stake (adds its two's complement)
NewTotalStaked_Sub(L, prediction, amount) ==
    FHE_add64(Decrypt64(L.ciphertexts, prediction.totalStaked),
              AddMod64([i \in 1..4 |-> LimbBase - 1 - amount[i]], Uint64Of(1)))

\* NewTotalStaked that adds the stake to twice the old total
NewTotalStaked_DoublesOld(L, prediction, amount) ==
    FHE_add64(FHE_add64(Decrypt64(L.ciphertexts, prediction.totalStaked),
                        Decrypt64(L.ciphertexts, prediction.totalStaked)), amount)

\* prediction.totalStaked after the bet
NewTotalStaked(L, prediction, amount) ==
    FHE_add64(Decrypt64(L.ciphertexts, prediction.totalStaked), amount)

\* NewTotalBets that adds the encrypted zero in place of the encrypted one
NewTotalBets_AddZero(L, prediction) ==
    FHE_add32(Decrypt32(L.ciphertexts, prediction.totalBets), 0)

\* prediction.totalBets after the bet
NewTotalBets(L, prediction) ==
    FHE_add32(Decrypt32(L.ciphertexts, prediction.totalBets), 1)

\* prediction.optionCounts[i] after the bet (i is zero-based)
NewOptionCount(L, prediction, choice, i) ==
    FHE_add32(Decrypt32(L.ciphertexts, prediction.optionCounts[i + 1]), Increment(choice, i))

\* placeBet with the loop over the options replaced by an update of
\* optionCounts[choice] alone (a write indexed by the secret)
placeBet_IndexedUpdate(L, sender, predictionId, choice, proofOk, value) ==
    IF placeBetError(L, sender, predictionId, value) # ""
    THEN Revert(L, placeBetError(L, sender, predictionId, value))
    ELSE IF ~proofOk THEN Revert(L, "InvalidProof")
    ELSE
        LET prediction == PredictionOf(L.predictions, predictionId)
            n       == prediction.optionCount
            k       == predictionId + 1
            h0      == Len(L.ciphertexts)
            amount  == ToUint64(value)
            hit     == choice < n
            counts  == [i \in 1..4 |-> IF hit /\ i = choice + 1 THEN h0 + 5
                                       ELSE prediction.optionCounts[i]]
            updated == {h0 + 3, h0 + 4} \cup (IF hit THEN {h0 + 5} ELSE {})
            bet     == [choice |-> h0 + 1, amount |-> h0 + 2, exists |-> TRUE]
            key     == <<predictionId, sender>>
        IN  Return(
              [L EXCEPT
                 !.predictions[k].totalStaked  = h0 + 3,
                 !.predictions[k].totalBets    = h0 + 4,
                 !.predictions[k].optionCounts = counts,
                 !.bets        = [x \in DOMAIN @ \cup {key} |-> IF x = key THEN bet ELSE @[x]],
                 !.ciphertexts = @ \o <<choice, amount,
                                        NewTotalStaked(L, prediction, amount),
                                        NewTotalBets(L, prediction)>>
                                   \o (IF hit
                                       THEN <<NewOptionCount(L, prediction, choice, choice)>>
                                       ELSE <<>>),
                 !.acl         = Allow(Allow(@, updated \cup {h0 + 1, h0 + 2}, This),
                                       updated \cup {h0 + 1, h0 + 2}, sender),
                 !.aggregates[k] = @ \cup updated,
                 !.balance     = NewBalance(L, value),
                 !.events      = Append(@, [name         |-> "BetPlaced",
                                            predictionId |-> predictionId,
                                            bettor       |-> sender,
                                            amount       |-> amount])],
              -1)

\* placeBet on a substrate whose FHE.add changes the ciphertext behind its
\* first operand's handle and returns that handle
placeBet_InPlace(L, sender, predictionId, choice, proofOk, value) ==
    IF placeBetError(L, sender, predictionId, value) # ""
    THEN Revert(L, placeBetError(L, sender, predictionId, value))
    ELSE IF ~proofOk THEN Revert(L, "InvalidProof")
    ELSE
        LET prediction == PredictionOf(L.predictions, predictionId)
            n       == prediction.optionCount
            h0      == Len(L.ciphertexts)
            hChoice == h0 + 1
            hAmount == h0 + 2
            amount  == ToUint64(value)
            updated == {prediction.totalStaked, prediction.totalBets}
                         \cup {prediction.optionCounts[i] : i \in 1..n}
            bet     == [choice |-> hChoice, amount |-> hAmount, exists |-> TRUE]
            key     == <<predictionId, sender>>
        IN  Return(
              [L EXCEPT
                 !.bets        = [x \in DOMAIN @ \cup {key} |-> IF x = key THEN bet ELSE @[x]],
                 !.ciphertexts =
                     [h \in 1..h0 |->
                        IF h = prediction.totalStaked THEN NewTotalStaked(L, prediction, amount)
                        ELSE IF h = prediction.totalBets THEN NewTotalBets(L, prediction)
                        ELSE IF \E i \in 1..n : h = prediction.optionCounts[i]
                        THEN NewOptionCount(L, prediction, choice,
                                 (CHOOSE i \in 1..n : h = prediction.optionCounts[i]) - 1)
                        ELSE @[h]] \o <<choice, amount>>,
                 !.acl         = Allow(Allow(@, updated \cup {hChoice, hAmount}, This),
                                       updated \cup {hChoice, hAmount}, sender),
                 !.balance     = NewBalance(L, value),
                 !.events      = Append(@, [name         |-> "BetPlaced",
                                            predictionId |-> predictionId,
                                            bettor       |-> sender,
                                            amount       |-> amount])],
              -1)

\* placeBet that also stores the new totalBets in the first prediction
placeBet_FirstPredictionToo(L, sender, predictionId, choice, proofOk, value) ==
    IF placeBetError(L, sender, predictionId, value) # ""
    THEN Revert(L, placeBetError(L, sender, predictionId, value))
    ELSE IF ~proofOk THEN Revert(L, "InvalidProof")
    ELSE
        LET prediction == PredictionOf(L.predictions, predictionId)
            n       == prediction.optionCount
            k       == predictionId + 1
            h0      == Len(L.ciphertexts)
            hChoice == h0 + 1
            hAmount == h0 + 2
            hStaked == h0 + 3
            hBets   == h0 + 4
            amount  == ToUint64(value)
            counts  == [i \in 1..4 |-> IF i <= n THEN h0 + 4 + i
                                       ELSE prediction.optionCounts[i]]
            updated == {hStaked, hBets} \cup {h0 + 4 + i : i \in 1..n}
            bet     == [choice |-> hChoice, amount |-> hAmount, exists |-> TRUE]
            key     == <<predictionId, sender>>
        IN  Return(
              [L EXCEPT
                 !.predictions[k].totalStaked  = hStaked,
                 !.predictions[k].totalBets    = hBets,
                 !.predictions[1].totalBets    = hBets,
                 !.predictions[k].optionCounts = counts,
                 !.bets        = [x \in DOMAIN @ \cup {key} |-> IF x = key THEN bet ELSE @[x]],
                 !.ciphertexts = @ \o <<choice, amount,
                                        NewTotalStaked(L, prediction, amount),
                                        NewTotalBets(L, prediction)>>
                                   \o [i \in 1..n |-> NewOptionCount(L, prediction, choice, i - 1)],
                 !.acl         = Allow(Allow(@, updated \cup {hChoice, hAmount}, This),
                                       updated \cup {hChoice, hAmount}, sender),
                 !.aggregates[k] = @ \cup updated,
                 !.balance     = NewBalance(L, value),
                 !.events      = Append(@, [name         |-> "BetPlaced",
                                            predictionId |-> predictionId,
                                            bettor       |-> sender,
                                            amount       |-> amount])],
              -1)

\* placeBet that verifies the proof before the three checks
placeBet_ProofFirst(L, sender, predictionId, choice, proofOk, value) ==
    IF ~proofOk THEN Revert(L, "InvalidProof")
    ELSE IF placeBetError(L, sender, predictionId, value) # ""
    THEN Revert(L, placeBetError(L, sender, predictionId, value))
    ELSE
        LET prediction == PredictionOf(L.predictions, predictionId)
            n       == prediction.optionCount
            k       == predictionId + 1
            h0      == Len(L.ciphertexts)
            hChoice == h0 + 1
            hAmount == h0 + 2
            hStaked == h0 + 3
            hBets   == h0 + 4
            amount  == ToUint64(value)
            counts  == [i \in 1..4 |-> IF i <= n THEN h0 + 4 + i
                                       ELSE prediction.optionCounts[i]]
            updated == {hStaked, hBets} \cup {h0 + 4 + i : i \in 1..n}
            bet     == [choice |-> hChoice, amount |-> hAmount, exists |-> TRUE]
            key     == <<predictionId, sender>>
        IN  Return(
              [L EXCEPT
                 !.predictions[k].totalStaked  = hStaked,
                 !.predictions[k].totalBets    = hBets,
                 !.predictions[k].optionCounts = counts,
                 !.bets        = [x \in DOMAIN @ \cup {key} |-> IF x = key THEN bet ELSE @[x]],
                 !.ciphertexts = @ \o <<choice, amount,
                                        NewTotalStaked(L, prediction, amount),
                                        NewTotalBets(L, prediction)>>
                                   \o [i \in 1..n |-> NewOptionCount(L, prediction, choice, i - 1)],
                 !.acl         = Allow(Allow(@, updated \cup {hChoice, hAmount}, This),
                                       updated \cup {hChoice, hAmount}, sender),
                 !.aggregates[k] = @ \cup updated,
                 !.balance     = NewBalance(L, value),
                 !.events      = Append(@, [name         |-> "BetPlaced",
                                            predictionId |-> predictionId,
                                            bettor       |-> sender,
                                            amount       |-> amount])],
              -1)

\* choice is the plaintext behind encryptedChoice; proofOk tells whether
\* FHE.fromExternal accepts inputProof
placeBet(L, sender, predictionId, choice, proofOk, value) ==
    IF placeBetError(L, sender, predictionId, value) # ""
    THEN Revert(L, placeBetError(L, sender, predictionId, value))
    ELSE IF ~proofOk THEN Revert(L, "InvalidProof")
    ELSE
        LET prediction == PredictionOf(L.predictions, predictionId)
            n       == prediction.optionCount
            k       == predictionId + 1
            h0      == Len(L.ciphertexts)
            hChoice == h0 + 1
            hAmount == h0 + 2
            hStaked == h0 + 3
            hBets   == h0 + 4
            amount  == ToUint64(value)
            counts  == [i \in 1..4 |-> IF i <= n THEN h0 + 4 + i
                                       ELSE prediction.optionCounts[i]]
            updated == {hStaked, hBets} \cup {h0 + 4 + i : i \in 1..n}
            bet     == [choice |-> hChoice, amount |-> hAmount, exists |-> TRUE]
            key     == <<predictionId, sender>>
        IN  Return(
              [L EXCEPT
                 !.predictions[k].totalStaked  = hStaked,
                 !.predictions[k].totalBets    = hBets,
                 !.predictions[k].optionCounts = counts,
                 !.bets        = [x \in DOMAIN @ \cup {key} |-> IF x = key THEN bet ELSE @[x]],
                 !.ciphertexts = @ \o <<choice, amount,
                                        NewTotalStaked(L, prediction, amount),
                                        NewTotalBets(L, prediction)>>
                                   \o [i \in 1..n |-> NewOptionCount(L, prediction, choice, i - 1)],
                 !.acl         = Allow(Allow(@, updated \cup {hChoice, hAmount}, This),
                                       updated \cup {hChoice, hAmount}, sender),
                 !.aggregates[k] = @ \cup updated,
                 !.balance     = NewBalance(L, value),
                 !.events      = Append(@, [name         |-> "BetPlaced",
                                            predictionId |-> predictionId,
                                            bettor       |-> sender,
                                            amount       |-> amount])],
              -1)

(***************************************************************************)
(* grantAccess                                                             *)
(***************************************************************************)
grantAccessError(L, predictionId) ==
    IF predictionId >= Len(L.predictions) THEN "InvalidPrediction" ELSE ""

\* GrantedHandles that ignores predictionId and covers every prediction
GrantedHandles_EveryPrediction(L, sender, predictionId) ==
    UNION {{L.predictions[k].totalStaked, L.predictions[k].totalBets}
             \cup {L.predictions[k].optionCounts[i] : i \in 1..L.predictions[k].optionCount}
           : k \in 1..Len(L.predictions)}

\* GrantedHandles without the option counters
GrantedHandles_TotalsOnly(L, sender, predictionId) ==
    LET prediction == PredictionOf(L.predictions, predictionId)
        bet        == BetOf(L.bets, predictionId, sender)
    IN  {prediction.totalStaked, prediction.totalBets}
          \cup (IF bet.exists THEN {bet.choice, bet.amount} ELSE {})

\* GrantedHandles without the caller's bet
GrantedHandles_NoBet(L, sender, predictionId) ==
    LET prediction == PredictionOf(L.predictions, predictionId)
    IN  {prediction.totalStaked, prediction.totalBets}
          \cup {prediction.optionCounts[i] : i \in 1..prediction.optionCount}

\* GrantedHandles with the bets of every address on the prediction
GrantedHandles_EveryBet(L, sender, predictionId) ==
    LET prediction == PredictionOf(L.predictions, predictionId)
    IN  {prediction.totalStaked, prediction.totalBets}
          \cup {prediction.optionCounts[i] : i \in 1..prediction.optionCount}
          \cup UNION {{L.bets[key].choice, L.bets[key].amount}
                       : key \in {x \in DOMAIN L.bets : x[1] = predictionId}}

\* GrantedHandles over all 4 slots of optionCounts
GrantedHandles_AllSlots(L, sender, predictionId) ==
    LET prediction == PredictionOf(L.predictions, predictionId)
        bet        == BetOf(L.bets, predictionId, sender)
    IN  {prediction.totalStaked, prediction.totalBets}
          \cup {prediction.optionCounts[i] : i \in 1..4}
          \cup (IF bet.exists THEN {bet.choice, bet.amount} ELSE {})

\* the handles grantAccess allows to the caller
GrantedHandles(L, sender, predictionId) ==
    LET prediction == PredictionOf(L.predictions, predictionId)
        bet        == BetOf(L.bets, predictionId, sender)
    IN  {prediction.totalStaked, prediction.totalBets}
          \cup {prediction.optionCounts[i] : i \in 1..prediction.optionCount}
          \cup (IF bet.exists THEN {bet.choice, bet.amount} ELSE {})

\* grantAccess that emits a record of the call
grantAccess_Emits(L, sender, predictionId) ==
    IF grantAccessError(L, predictionId) # ""
    THEN Revert(L, grantAccessError(L, predictionId))
    ELSE Return([L EXCEPT !.acl = Allow(@, GrantedHandles(L, sender, predictionId), sender),
                          !.events = Append(@, [name         |-> "AccessGranted",
                                                predictionId |-> predictionId,
                                                user         |-> sender])],
                -1)

\* grantAccess that replaces the caller's earlier grants by the new ones
grantAccess_Replaces(L, sender, predictionId) ==
    IF grantAccessError(L, predictionId) # ""
    THEN Revert(L, grantAccessError(L, predictionId))
    ELSE Return([L EXCEPT !.acl = Allow({g \in @ : g[2] # sender},
                                        GrantedHandles(L, sender, predictionId), sender)],
                -1)

\* grantAccess that stores a new encryption of totalBets before allowing it
grantAccess_Reencrypts(L, sender, predictionId) ==
    IF grantAccessError(L, predictionId) # ""
    THEN Revert(L, grantAccessError(L, predictionId))
    ELSE Return([L EXCEPT !.predictions[predictionId + 1].totalBets = Len(L.ciphertexts) + 1,
                          !.ciphertexts = Append(@, Decrypt32(L.ciphertexts,
                                              PredictionOf(L.predictions, predictionId).totalBets)),
                          !.acl = Allow(@, GrantedHandles(L, sender, predictionId)
                                             \cup {Len(L.ciphertexts) + 1}, sender)],
                -1)

grantAccess(L, sender, predictionId) ==
    IF grantAccessError(L, predictionId) # ""
    THEN Revert(L, grantAccessError(L, predictionId))
    ELSE Return([L EXCEPT !.acl = Allow(@, GrantedHandles(L, sender, predictionId), sender)],
                -1)

(***************************************************************************)
(* The view functions.  A view returns an error or a                       *)
(* value and has no ledger to change.                                      *)
(***************************************************************************)
\* a view that reverts
ViewRevert(error) == [err |-> error, ret |-> <<>>]

\* getPredictionMeta: (title, optionCount, createdAt, creator)
getPredictionMeta(L, predictionId) ==
    IF predictionId >= Len(L.predictions) THEN ViewRevert("InvalidPrediction")
    ELSE LET prediction == PredictionOf(L.predictions, predictionId)
         IN  [err |-> "",
              ret |-> <<prediction.title, prediction.optionCount,
                        prediction.createdAt, prediction.creator>>]

\* getPredictionOptions that takes predictionId as a one-based position
getPredictionOptions_OneBased(L, predictionId) ==
    IF predictionId = 0 \/ predictionId > Len(L.predictions)
    THEN ViewRevert("InvalidPrediction")
    ELSE [err |-> "", ret |-> L.predictions[predictionId].options]

\* getPredictionOptions: the options of the prediction
getPredictionOptions(L, predictionId) ==
    IF predictionId >= Len(L.predictions) THEN ViewRevert("InvalidPrediction")
    ELSE [err |-> "", ret |-> PredictionOf(L.predictions, predictionId).options]

\* getPredictionTotals: (totalStaked, totalBets)
getPredictionTotals(L, predictionId) ==
    IF predictionId >= Len(L.predictions) THEN ViewRevert("InvalidPrediction")
    ELSE LET prediction == PredictionOf(L.predictions, predictionId)
         IN  [err |-> "", ret |-> <<prediction.totalStaked, prediction.totalBets>>]

\* getOptionCounts that copies the whole storage array
getOptionCounts_WholeArray(L, predictionId) ==
    IF predictionId >= Len(L.predictions) THEN ViewRevert("InvalidPrediction")
    ELSE [err |-> "", ret |-> PredictionOf(L.predictions, predictionId).optionCounts]

\* getOptionCounts: a new array of optionCount handles, counts[i] = optionCounts[i]
getOptionCounts(L, predictionId) ==
    IF predictionId >= Len(L.predictions) THEN ViewRevert("InvalidPrediction")
    ELSE LET prediction == PredictionOf(L.predictions, predictionId)
         IN  [err |-> "",
              ret |-> [i \in 1..prediction.optionCount |-> prediction.optionCounts[i]]]

\* getUserBet that reads the bet of the first prediction whatever predictionId is
getUserBet_FirstPrediction(L, predictionId, user) ==
    IF predictionId >= Len(L.predictions) THEN ViewRevert("InvalidPrediction")
    ELSE LET bet == BetOf(L.bets, 0, user)
         IN  [err |-> "", ret |-> <<bet.exists, bet.choice, bet.amount>>]

\* getUserBet: (hasBet, choice, amount)
getUserBet(L, predictionId, user) ==
    IF predictionId >= Len(L.predictions) THEN ViewRevert("InvalidPrediction")
    ELSE LET bet == BetOf(L.bets, predictionId, user)
         IN  [err |-> "", ret |-> <<bet.exists, bet.choice, bet.amount>>]

(***************************************************************************)
(* The ledger as a state machine: one transaction per step.                *)
(*                                                                         *)
(* Two variables record history that the contract does not store:          *)
(* aggregates[k] is the set of handles that prediction k-1 has ever held   *)
(* in totalStaked, totalBets and optionCounts[0..optionCount), and granted *)
(* is the set of <<predictionId, caller>> of the grantAccess calls that    *)
(* returned.                                                               *)
(***************************************************************************)
Init ==
    /\ predictions = <<>>
    /\ bets = <<>>
    /\ ciphertexts = <<>>
    /\ acl = {}
    /\ events = <<>>
    /\ balance = Uint256Of(0)
    /\ aggregates = <<>>
    /\ granted = {}
    /\ txCount = 0
    /\ lastTx = [op |-> "constructor", ret |-> -1]

\* one transaction; lastTx is the last transaction that did not revert, with
\* the value it returned
Apply(op, r) ==
    /\ predictions' = r.ledger.predictions
    /\ bets' = r.ledger.bets
    /\ ciphertexts' = r.ledger.ciphertexts
    /\ acl' = r.ledger.acl
    /\ events' = r.ledger.events
    /\ balance' = r.ledger.balance
    /\ aggregates' = r.ledger.aggregates
    /\ txCount' = IF r.err = "" THEN txCount + 1 ELSE txCount
    /\ lastTx' = IF r.err = "" THEN [op |-> op, ret |-> r.ret] ELSE lastTx

\* the bounds leave room for one more successful transaction
MoreTx == txCount < MaxTx

CreatePrediction ==
    \E sender \in Users, timestamp \in Timestamps, title \in Titles, n \in 0..MaxOptionsLen :
        LET options == SubSeq(OptionNames, 1, n)
        IN  /\ createPredictionError(options) = ""
                 => MoreTx /\ Len(predictions) < MaxPredictions
            /\ Apply("createPrediction",
                     createPrediction(Ledger, sender, timestamp, title, options))
            /\ UNCHANGED granted

PlaceBet ==
    \E sender \in Users, predictionId \in 0..MaxPredictions, value \in Values :
        /\ IF placeBetError(Ledger, sender, predictionId, value) # ""
           THEN Apply("placeBet", placeBet(Ledger, sender, predictionId, 0, TRUE, value))
           ELSE \E choice \in 0..MaxChoice, proofOk \in BOOLEAN :
                   /\ proofOk => MoreTx
                   /\ Apply("placeBet",
                            placeBet(Ledger, sender, predictionId, choice, proofOk, value))
        /\ UNCHANGED granted

GrantAccess ==
    \E sender \in Users, predictionId \in 0..MaxPredictions :
        /\ grantAccessError(Ledger, predictionId) = "" => MoreTx
        /\ Apply("grantAccess", grantAccess(Ledger, sender, predictionId))
        /\ granted' = IF grantAccessError(Ledger, predictionId) = ""
                      THEN granted \cup {<<predictionId, sender>>}
                      ELSE granted

\* a call of a view function: an eth_call, which is no transaction
GetPredictionMeta ==
    \E predictionId \in 0..MaxPredictions :
        /\ getPredictionMeta(Ledger, predictionId).err \in {"", "InvalidPrediction"}
        /\ UNCHANGED vars

GetPredictionOptions ==
    \E predictionId \in 0..MaxPredictions :
        /\ getPredictionOptions(Ledger, predictionId).err \in {"", "InvalidPrediction"}
        /\ UNCHANGED vars

GetPredictionTotals ==
    \E predictionId \in 0..MaxPredictions :
        /\ getPredictionTotals(Ledger, predictionId).err \in {"", "InvalidPrediction"}
        /\ UNCHANGED vars

GetOptionCounts ==
    \E predictionId \in 0..MaxPredictions :
        /\ getOptionCounts(Ledger, predictionId).err \in {"", "InvalidPrediction"}
        /\ UNCHANGED vars

GetUserBet ==
    \E predictionId \in 0..MaxPredictions, user \in Users :
        /\ getUserBet(Ledger, predictionId, user).err \in {"", "InvalidPrediction"}
        /\ UNCHANGED vars

Next ==
    \/ CreatePrediction
    \/ PlaceBet
    \/ GrantAccess
    \/ GetPredictionMeta
    \/ GetPredictionOptions
    \/ GetPredictionTotals
    \/ GetOptionCounts
    \/ GetUserBet

Spec == Init /\ [][Next]_vars

(***************************************************************************)
(* Vocabulary of the properties.                                           *)
(***************************************************************************)
\* the ids of the predictions that exist
Ids == 0..(Len(predictions) - 1)

\* the BetPlaced records emitted for prediction m
BetEvents(m) ==
    {j \in 1..Len(events) : events[j].name = "BetPlaced" /\ events[j].predictionId = m}

\* the addresses with a stored bet on prediction m
Bettors(m) == {u \in Users : BetOf(bets, m, u).exists}

\* the handles prediction m holds now in its aggregates
CurrentAggregates(L, m) ==
    LET prediction == PredictionOf(L.predictions, m)
    IN  {prediction.totalStaked, prediction.totalBets}
          \cup {prediction.optionCounts[i] : i \in 1..prediction.optionCount}

RECURSIVE SumTo(_, _)
\* f[1] + ... + f[n]
SumTo(f, n) == IF n = 0 THEN 0 ELSE f[n] + SumTo(f, n - 1)

\* decrypted optionCounts[0] + ... + optionCounts[optionCount - 1] of prediction m
OptionCountsSum(m) ==
    LET prediction == PredictionOf(predictions, m)
    IN  SumTo([i \in 1..4 |-> Decrypt32(ciphertexts, prediction.optionCounts[i])],
              prediction.optionCount)

\* decrypted totalBets of prediction m
TotalBetsOf(m) == Decrypt32(ciphertexts, PredictionOf(predictions, m).totalBets)

\* decrypted totalStaked of prediction m
TotalStakedOf(m) == Decrypt64(ciphertexts, PredictionOf(predictions, m).totalStaked)

\* the plaintext behind the stored choice of u's bet on m
ChoiceOf(m, u) == Decrypt32(ciphertexts, BetOf(bets, m, u).choice)

(***************************************************************************)
(* C1: in every reachable state and for every prediction, the decrypted    *)
(* optionCounts[0..optionCount) add up to the decrypted totalBets,         *)
(* whatever choices the accepted bets carried.                             *)
(* The code accepts a choice >= optionCount, counts it in totalBets and in *)
(* no option counter, so TLC refutes the statement.                        *)
(***************************************************************************)
C1_OptionCountsSumToTotalBets == \A m \in Ids : OptionCountsSum(m) = TotalBetsOf(m)

(***************************************************************************)
(* C2: the decrypted totalBets of a prediction is the number of accepted   *)
(* bets on it: the number of addresses whose bet record has exists = TRUE, *)
(* which is the number of BetPlaced records emitted for it.                *)
(***************************************************************************)
C2_TotalBetsCountsAcceptedBets ==
    \A m \in Ids :
        /\ TotalBetsOf(m) = Cardinality(Bettors(m))
        /\ TotalBetsOf(m) = Cardinality(BetEvents(m))

\* two bets were accepted on one prediction, and none on another
C2_Witness ==
    \E m \in Ids, k \in Ids :
        /\ Cardinality(BetEvents(m)) = 2 /\ TotalBetsOf(m) = 2
        /\ Cardinality(BetEvents(k)) = 0 /\ TotalBetsOf(k) = 0

(***************************************************************************)
(* C3: the decrypted totalStaked of a prediction is the sum of the amounts *)
(* of its accepted bets modulo 2^64.  The sum is taken here limb by limb   *)
(* over the BetPlaced records, without reduction, and reduced once.        *)
(***************************************************************************)
RECURSIVE LimbSum(_, _, _)
\* the sum of limb i of the amounts of the BetPlaced records of m among events[1..j]
LimbSum(m, i, j) ==
    IF j = 0 THEN 0
    ELSE LimbSum(m, i, j - 1) + (IF j \in BetEvents(m) THEN events[j].amount[i] ELSE 0)

RECURSIVE Reduced(_, _)
\* the number whose limbs are cols, with limbs 1..(i - 1) reduced, divided by
\* LimbBase^(i - 1)
Reduced(cols, i) ==
    IF i = 1 THEN cols[1] ELSE cols[i] + (Reduced(cols, i - 1) \div LimbBase)

\* (the sum of the amounts staked on m) mod 2^64
StakedSumMod64(m) ==
    LET cols == [i \in 1..4 |-> LimbSum(m, i, Len(events))]
    IN  [i \in 1..4 |-> Reduced(cols, i) % LimbBase]

C3_TotalStakedIsSumMod64 == \A m \in Ids : TotalStakedOf(m) = StakedSumMod64(m)

\* bets of 2^64 - 1 and of 1 on one prediction: the total wrapped to 0
C3_Witness ==
    \E m \in Ids :
        /\ Cardinality(BetEvents(m)) = 2
        /\ \E j \in BetEvents(m) : events[j].amount = ToUint64(MaxUint64)
        /\ \E j \in BetEvents(m) : events[j].amount = Uint64Of(1)
        /\ TotalStakedOf(m) = Uint64Of(0)

\* 0 < v <= 2^64 - 1 for a uint256 v
InRange(v) == v # Uint256Of(0) /\ \A i \in 5..16 : v[i] = 0

(***************************************************************************)
(* C4 as amended: a placeBet by an address that already has a bet on the   *)
(* same existing prediction always fails, whatever the new choice and the  *)
(* proof: with BetAlreadyPlaced when the attached value v satisfies        *)
(* 0 < v <= 2^64 - 1, and with InvalidBetAmount when v is zero or exceeds  *)
(* 2^64 - 1 (the value is checked before the existing bet).                *)
(***************************************************************************)
C4_SecondBetRejected ==
    \A m \in Ids : \A u \in Bettors(m) :
        \A c \in 0..MaxChoice, p \in BOOLEAN, v \in Values :
            placeBet(Ledger, u, m, c, p, v).err
                = IF InRange(v) THEN "BetAlreadyPlaced" ELSE "InvalidBetAmount"

\* C4 as stated: BetAlreadyPlaced whatever the attached amount, zero and
\* amounts above 2^64 - 1 included
C4_AlwaysBetAlreadyPlaced ==
    \A m \in Ids : \A u \in Bettors(m) :
        \A c \in 0..MaxChoice, p \in BOOLEAN, v \in Values :
            placeBet(Ledger, u, m, c, p, v).err = "BetAlreadyPlaced"

\* an address with a bet on a prediction whose second bet is rejected
C4_Witness ==
    \E m \in Ids : \E u \in Bettors(m) :
        /\ lastTx.op = "placeBet"
        /\ placeBet(Ledger, u, m, 1, TRUE, MaxUint64).err = "BetAlreadyPlaced"
        /\ placeBet(Ledger, u, m, 1, TRUE, TwoPow64).err = "InvalidBetAmount"

(***************************************************************************)
(* C5: for an existing prediction and a caller without a bet on it, a      *)
(* placeBet (with a proof the substrate accepts) is accepted exactly when  *)
(* the attached value v satisfies 0 < v <= 2^64 - 1; v = 0 and v = 2^64    *)
(* fail with InvalidBetAmount and v = 2^64 - 1 is accepted.                *)
(***************************************************************************)
C5_StakeRange ==
    \A m \in Ids : \A u \in Users \ Bettors(m) : \A c \in 0..MaxChoice :
        /\ \A v \in Values :
              /\ InRange(v) => placeBet(Ledger, u, m, c, TRUE, v).err = ""
              /\ ~InRange(v) =>
                    \A p \in BOOLEAN : placeBet(Ledger, u, m, c, p, v).err = "InvalidBetAmount"
        /\ placeBet(Ledger, u, m, c, TRUE, Uint256Of(0)).err = "InvalidBetAmount"
        /\ placeBet(Ledger, u, m, c, TRUE, TwoPow64).err = "InvalidBetAmount"
        /\ placeBet(Ledger, u, m, c, TRUE, MaxUint64).err = ""

\* a bet of 2^64 - 1 was accepted, and an address without a bet is left
C5_Witness ==
    /\ lastTx.op = "placeBet"
    /\ events[Len(events)].name = "BetPlaced"
    /\ events[Len(events)].amount = ToUint64(MaxUint64)
    /\ \E m \in Ids : Users \ Bettors(m) # {}

(***************************************************************************)
(* C6: every createPrediction that returns increases the prediction count  *)
(* by exactly 1 and returns the count before the call, so that the ids are *)
(* 0, 1, 2, ... in creation order; a failed createPrediction, placeBet and *)
(* grantAccess leave the count as it is.                                   *)
(***************************************************************************)
CreatedEvents == SelectSeq(events, LAMBDA e : e.name = "PredictionCreated")

C6_SequentialIds ==
    /\ Len(CreatedEvents) = Len(predictions)
    /\ \A k \in 1..Len(CreatedEvents) : CreatedEvents[k].predictionId = k - 1
    /\ \A sender \in Users, t \in Timestamps, title \in Titles, n \in 0..MaxOptionsLen :
          LET r == createPrediction(Ledger, sender, t, title, SubSeq(OptionNames, 1, n))
          IN  IF r.err = ""
              THEN /\ Len(r.ledger.predictions) = Len(predictions) + 1
                   /\ r.ret = Len(predictions)
              ELSE Len(r.ledger.predictions) = Len(predictions)
    /\ \A sender \in Users, id \in 0..MaxPredictions :
          /\ Len(grantAccess(Ledger, sender, id).ledger.predictions) = Len(predictions)
          /\ \A c \in 0..MaxChoice, p \in BOOLEAN, v \in Values :
                Len(placeBet(Ledger, sender, id, c, p, v).ledger.predictions)
                    = Len(predictions)

\* the second createPrediction returned id 1
C6_Witness ==
    /\ Len(predictions) = 2
    /\ lastTx = [op |-> "createPrediction", ret |-> 1]

(***************************************************************************)
(* C7: createPrediction fails with InvalidOptions for every options array  *)
(* of length 0, 1 or >= 5 and succeeds for every one of length 2, 3 or 4,  *)
(* from any reachable state and for any caller and title.                  *)
(***************************************************************************)
C7_OptionsLength ==
    \A sender \in Users, t \in Timestamps, title \in Titles, n \in 0..MaxOptionsLen :
        createPrediction(Ledger, sender, t, title, SubSeq(OptionNames, 1, n)).err
            = IF n \in {2, 3, 4} THEN "" ELSE "InvalidOptions"

\* predictions of 2 and of 4 options were created
C7_Witness ==
    /\ lastTx.op = "createPrediction"
    /\ \E m \in Ids : PredictionOf(predictions, m).optionCount = 4
    /\ \E m \in Ids : PredictionOf(predictions, m).optionCount = 2

(***************************************************************************)
(* C8: an address that has neither had a placeBet accepted on prediction m *)
(* nor had a grantAccess(m) return (m's creator included) is allowed to    *)
(* decrypt none of the handles m has ever held in totalStaked, totalBets   *)
(* and optionCounts; right after either call returns, the caller is        *)
(* allowed to decrypt m's current totalStaked, totalBets and every         *)
(* optionCounts[i] for i < optionCount.                                    *)
(***************************************************************************)
C8_AggregatePermission ==
    \A m \in Ids, u \in Users :
        /\ (u \notin Bettors(m) /\ <<m, u>> \notin granted)
              => \A h \in aggregates[m + 1] : ~IsAllowed(acl, h, u)
        /\ LET r == grantAccess(Ledger, u, m)
           IN  /\ r.err = ""
               /\ \A h \in CurrentAggregates(r.ledger, m) : IsAllowed(r.ledger.acl, h, u)
        /\ \A c \in 0..MaxChoice, v \in Values :
              LET r == placeBet(Ledger, u, m, c, TRUE, v)
              IN  r.err = ""
                    => \A h \in CurrentAggregates(r.ledger, m) : IsAllowed(r.ledger.acl, h, u)

\* the creator of a prediction holds no permission on its aggregates while
\* one address has bet on it and obtained permission on them, and the
\* creator has obtained permission on another prediction through grantAccess
C8_Witness ==
    \E m \in Ids, k \in Ids, u \in Users, w \in Users :
        /\ PredictionOf(predictions, m).creator = u
        /\ u \notin Bettors(m) /\ <<m, u>> \notin granted
        /\ <<k, u>> \in granted
        /\ w \in Bettors(m)
        /\ \A h \in CurrentAggregates(Ledger, m) : IsAllowed(acl, h, w) /\ ~IsAllowed(acl, h, u)

(***************************************************************************)
(* C9: a call that fails (InvalidPrediction, InvalidOptions,               *)
(* InvalidBetAmount, BetAlreadyPlaced, or a proof the substrate rejects)   *)
(* leaves the whole ledger as it was: the predictions with their metadata  *)
(* and aggregates, the bet records, the ciphertexts, the decrypt grants    *)
(* and the emitted records.                                                *)
(***************************************************************************)
C9_FailureChangesNothing ==
    /\ \A sender \in Users, t \in Timestamps, title \in Titles, n \in 0..MaxOptionsLen :
          LET r == createPrediction(Ledger, sender, t, title, SubSeq(OptionNames, 1, n))
          IN  r.err # "" => r.ledger = Ledger
    /\ \A sender \in Users, id \in 0..MaxPredictions :
          /\ LET r == grantAccess(Ledger, sender, id)
             IN  r.err # "" => r.ledger = Ledger
          /\ \A c \in 0..MaxChoice, p \in BOOLEAN, v \in Values :
                LET r == placeBet(Ledger, sender, id, c, p, v)
                IN  r.err # "" => r.ledger = Ledger

\* a state with bets and grants to keep, in which calls fail with each of
\* the errors
C9_Witness ==
    \E m \in Ids, u \in Users, w \in Users :
        /\ granted # {}
        /\ placeBet(Ledger, u, m, 0, TRUE, Uint256Of(1)).err = "BetAlreadyPlaced"
        /\ placeBet(Ledger, w, m, 0, FALSE, Uint256Of(1)).err = "InvalidProof"
        /\ placeBet(Ledger, w, m, 0, TRUE, Uint256Of(0)).err = "InvalidBetAmount"
        /\ placeBet(Ledger, w, Len(predictions), 0, TRUE, Uint256Of(1)).err = "InvalidPrediction"
        /\ grantAccess(Ledger, w, Len(predictions)).err = "InvalidPrediction"
        /\ createPrediction(Ledger, w, 1700000000, "ETH ETF approval", <<"Approve">>).err
              = "InvalidOptions"

(***************************************************************************)
(* C10: placeBet checks, in this order, that the prediction exists, that   *)
(* the stake is in range and that the caller has no bet, and reports the   *)
(* first failure: a prediction that does not exist gives InvalidPrediction *)
(* whatever the stake; an existing one with a stake of 0 or above 2^64 - 1 *)
(* gives InvalidBetAmount whether or not the caller has a bet;             *)
(* BetAlreadyPlaced is reported exactly when the first two checks pass and *)
(* the caller has a bet.                                                   *)
(***************************************************************************)
C10_CheckOrder ==
    \A sender \in Users, id \in 0..MaxPredictions :
        \A c \in 0..MaxChoice, p \in BOOLEAN, v \in Values :
            LET e == placeBet(Ledger, sender, id, c, p, v).err
            IN  /\ id >= Len(predictions) => e = "InvalidPrediction"
                /\ (id < Len(predictions) /\ ~InRange(v)) => e = "InvalidBetAmount"
                /\ e = "BetAlreadyPlaced"
                      <=> (id < Len(predictions) /\ InRange(v) /\ sender \in Bettors(id))

\* an address with a bet, for which an out-of-range stake and a missing
\* prediction are reported before the existing bet
C10_Witness ==
    \E m \in Ids : \E u \in Bettors(m) :
        /\ placeBet(Ledger, u, m, 0, TRUE, Uint256Of(0)).err = "InvalidBetAmount"
        /\ placeBet(Ledger, u, Len(predictions), 0, TRUE, Uint256Of(0)).err = "InvalidPrediction"
        /\ placeBet(Ledger, u, m, 0, TRUE, Uint256Of(1)).err = "BetAlreadyPlaced"

(***************************************************************************)
(* C11: the aggregation of placeBet is oblivious to the choice.  Two       *)
(* accepted bets from the same state that differ only in the plaintext     *)
(* behind the encrypted choice write the same storage slots (totalStaked,  *)
(* totalBets, every optionCounts[i] for i < optionCount, and the caller's  *)
(* bet record), allow the same slots to the same addresses and emit the    *)
(* same record.                                                            *)
(***************************************************************************)
\* the aggregate slots of prediction m: totalStaked, totalBets, optionCounts[0..3]
PredictionSlots(L, m) ==
    LET prediction == PredictionOf(L.predictions, m)
    IN  <<prediction.totalStaked, prediction.totalBets>> \o prediction.optionCounts

\* the aggregate slots <<prediction, slot>> that hold another handle in L2 than in L
WrittenAggregates(L, L2) ==
    {x \in (0..(Len(L.predictions) - 1)) \X (1..6) :
        PredictionSlots(L, x[1])[x[2]] # PredictionSlots(L2, x[1])[x[2]]}

\* the bet records <<prediction, user>> that differ between L and L2
WrittenBets(L, L2) ==
    {x \in (0..(Len(L.predictions) - 1)) \X Users :
        BetOf(L.bets, x[1], x[2]) # BetOf(L2.bets, x[1], x[2])}

\* <<prediction, slot, address>>: the address is allowed in L2, and was not in
\* L, to decrypt the handle the slot holds in L2
SlotGrants(L, L2) ==
    {x \in (0..(Len(L.predictions) - 1)) \X (1..6) \X (Users \cup {This}) :
        LET h == PredictionSlots(L2, x[1])[x[2]]
        IN  h # NoHandle /\ IsAllowed(L2.acl, h, x[3]) /\ ~IsAllowed(L.acl, h, x[3])}

\* <<prediction, user, address>>: the address is allowed in L2, and was not in
\* L, to decrypt the choice and the amount of the user's bet on the prediction
BetGrants(L, L2) ==
    {x \in (0..(Len(L.predictions) - 1)) \X Users \X (Users \cup {This}) :
        LET bet == BetOf(L2.bets, x[1], x[2])
        IN  /\ bet.exists
            /\ IsAllowed(L2.acl, bet.choice, x[3]) /\ ~IsAllowed(L.acl, bet.choice, x[3])
            /\ IsAllowed(L2.acl, bet.amount, x[3]) /\ ~IsAllowed(L.acl, bet.amount, x[3])}

C11_ObliviousAggregation ==
    \A m \in Ids : \A u \in Users \ Bettors(m) : \A v \in {x \in Values : InRange(x)} :
        LET n   == PredictionOf(predictions, m).optionCount
            r0  == placeBet(Ledger, u, m, 0, TRUE, v)
            wa0 == WrittenAggregates(Ledger, r0.ledger)
            wb0 == WrittenBets(Ledger, r0.ledger)
            sg0 == SlotGrants(Ledger, r0.ledger)
            bg0 == BetGrants(Ledger, r0.ledger)
        IN  /\ r0.err = ""
            /\ wa0 = {m} \X (1..(2 + n))
            /\ wb0 = {<<m, u>>}
            /\ \A c \in 1..MaxChoice :
                  LET r == placeBet(Ledger, u, m, c, TRUE, v)
                  IN  /\ r.err = ""
                      /\ WrittenAggregates(Ledger, r.ledger) = wa0
                      /\ WrittenBets(Ledger, r.ledger) = wb0
                      /\ SlotGrants(Ledger, r.ledger) = sg0
                      /\ BetGrants(Ledger, r.ledger) = bg0
                      /\ r.ledger.events = r0.ledger.events

\* two bets with different choices were accepted on one prediction, and the
\* later one replaced every aggregate handle of the prediction
C11_Witness ==
    \E m \in Ids : \E u \in Bettors(m), w \in Bettors(m) :
        /\ lastTx.op = "placeBet"
        /\ ChoiceOf(m, u) # ChoiceOf(m, w)
        /\ \A h \in CurrentAggregates(Ledger, m) : IsAllowed(acl, h, w) /\ ~IsAllowed(acl, h, u)

(***************************************************************************)
(* C12: an accepted bet whose choice c is below optionCount adds exactly 1 *)
(* to the plaintext of optionCounts[c] and leaves the plaintext of every   *)
(* other optionCounts[i] as it was; hence in every reachable state         *)
(* optionCounts[i] is the number of bets on the prediction with choice i.  *)
(***************************************************************************)
\* the decrypted optionCounts[i] of prediction m in ledger L (i is zero-based)
OptionCountOf(L, m, i) ==
    Decrypt32(L.ciphertexts, PredictionOf(L.predictions, m).optionCounts[i + 1])

C12_InRangeChoiceCounted ==
    \A m \in Ids :
        LET n == PredictionOf(predictions, m).optionCount
        IN  /\ \A i \in 0..(n - 1) :
                  OptionCountOf(Ledger, m, i)
                      = Cardinality({u \in Bettors(m) : ChoiceOf(m, u) = i})
            /\ \A u \in Users \ Bettors(m), c \in 0..MaxChoice :
                  LET r == placeBet(Ledger, u, m, c, TRUE, Uint256Of(1))
                  IN  c < n =>
                        \A i \in 0..(n - 1) :
                            OptionCountOf(r.ledger, m, i)
                                = OptionCountOf(Ledger, m, i) + (IF i = c THEN 1 ELSE 0)

\* both addresses chose option 2 of a prediction with more than two options:
\* optionCounts = [0, 0, 2, ...] and totalBets = 2
C12_Witness ==
    \E m \in Ids :
        /\ PredictionOf(predictions, m).optionCount > 2
        /\ \A u \in Users : u \in Bettors(m) /\ ChoiceOf(m, u) = 2
        /\ OptionCountOf(Ledger, m, 0) = 0
        /\ OptionCountOf(Ledger, m, 1) = 0
        /\ OptionCountOf(Ledger, m, 2) = 2
        /\ TotalBetsOf(m) = 2

(***************************************************************************)
(* C13: a placeBet whose choice is >= optionCount, and whose checks pass,  *)
(* is accepted: the bet record is stored with exists = TRUE, totalBets     *)
(* grows by 1 and totalStaked by the stake (modulo 2^64), and the          *)
(* plaintext of every optionCounts[i] stays as it was.                     *)
(***************************************************************************)
C13_OutOfRangeChoiceAccepted ==
    \A m \in Ids : \A u \in Users \ Bettors(m) :
        \A c \in 0..MaxChoice, v \in {x \in Values : InRange(x)} :
            LET n == PredictionOf(predictions, m).optionCount
                r == placeBet(Ledger, u, m, c, TRUE, v)
                q == PredictionOf(r.ledger.predictions, m)
            IN  c >= n =>
                  /\ r.err = ""
                  /\ BetOf(r.ledger.bets, m, u).exists
                  /\ Decrypt32(r.ledger.ciphertexts, BetOf(r.ledger.bets, m, u).choice) = c
                  /\ Decrypt32(r.ledger.ciphertexts, q.totalBets) = TotalBetsOf(m) + 1
                  /\ Decrypt64(r.ledger.ciphertexts, q.totalStaked)
                        = AddMod64(TotalStakedOf(m), ToUint64(v))
                  /\ \A i \in 0..3 : OptionCountOf(r.ledger, m, i) = OptionCountOf(Ledger, m, i)

\* a bet with choice 2 was accepted on a prediction of 2 options: it is
\* counted in totalBets and totalStaked and in no option counter
C13_Witness ==
    \E m \in Ids, u \in Users :
        /\ PredictionOf(predictions, m).optionCount = 2
        /\ Bettors(m) = {u}
        /\ ChoiceOf(m, u) = 2
        /\ TotalBetsOf(m) = 1
        /\ TotalStakedOf(m) = ToUint64(MaxUint64)
        /\ OptionCountsSum(m) = 0

(***************************************************************************)
(* C14: grantAccess(m) fails with InvalidPrediction when m is not below    *)
(* the number of predictions, and otherwise returns for every caller in    *)
(* every reachable state, the creator, a bettor and an address that never  *)
(* called the contract alike; after it the caller is allowed on m's        *)
(* current totalStaked, totalBets and optionCounts[0..optionCount).        *)
(***************************************************************************)
C14_GrantAccessForAnyCaller ==
    \A u \in Users, id \in 0..MaxPredictions :
        LET r == grantAccess(Ledger, u, id)
        IN  IF id >= Len(predictions)
            THEN r.err = "InvalidPrediction" /\ r.ledger = Ledger
            ELSE /\ r.err = ""
                 /\ \A h \in CurrentAggregates(Ledger, id) : IsAllowed(r.ledger.acl, h, u)
                 /\ CurrentAggregates(r.ledger, id) = CurrentAggregates(Ledger, id)

\* an address that neither created a prediction nor placed a bet has had
\* grantAccess return and is allowed on every current aggregate of the
\* prediction, on which another address has bet
C14_Witness ==
    \E m \in Ids, u \in Users :
        /\ lastTx.op = "grantAccess"
        /\ <<m, u>> \in granted
        /\ \A k \in Ids : PredictionOf(predictions, k).creator # u /\ u \notin Bettors(k)
        /\ Bettors(m) # {}
        /\ \A h \in CurrentAggregates(Ledger, m) : IsAllowed(acl, h, u)

(***************************************************************************)
(* C15: grantAccess(m) allows the caller on the choice and amount of the   *)
(* caller's own bet on m exactly when that bet record has exists = TRUE;   *)
(* for a caller without a bet on m it allows no handle of any bet, and it  *)
(* never allows the caller on another address's bet.                       *)
(***************************************************************************)
\* the choice and amount handles of every stored bet
BetHandles(L) == UNION {{L.bets[key].choice, L.bets[key].amount} : key \in DOMAIN L.bets}

C15_OwnBetGrant ==
    \A m \in Ids, u \in Users :
        LET bet == BetOf(bets, m, u)
            r   == grantAccess(Ledger, u, m)
            hs  == GrantedHandles(Ledger, u, m)
        IN  /\ r.ledger.acl = acl \cup (hs \X {u})
            /\ hs \cap BetHandles(Ledger) = IF bet.exists THEN {bet.choice, bet.amount} ELSE {}
            /\ bet.exists => /\ IsAllowed(r.ledger.acl, bet.choice, u)
                             /\ IsAllowed(r.ledger.acl, bet.amount, u)
            /\ \A h \in BetHandles(Ledger) \ {bet.choice, bet.amount} :
                  IsAllowed(r.ledger.acl, h, u) = IsAllowed(acl, h, u)

\* both addresses have had grantAccess(m) return; one has a bet on m and is
\* allowed on its choice and amount, the other has none and is allowed on
\* neither
C15_Witness ==
    \E m \in Ids, u \in Users, w \in Users :
        /\ lastTx.op = "grantAccess"
        /\ <<m, u>> \in granted /\ <<m, w>> \in granted
        /\ u \in Bettors(m) /\ w \notin Bettors(m)
        /\ IsAllowed(acl, BetOf(bets, m, u).choice, u)
        /\ IsAllowed(acl, BetOf(bets, m, u).amount, u)
        /\ ~IsAllowed(acl, BetOf(bets, m, u).choice, w)
        /\ ~IsAllowed(acl, BetOf(bets, m, u).amount, w)

(***************************************************************************)
(* C16: grantAccess is idempotent: from every reachable state, a second    *)
(* grantAccess(m) by the same caller right after the first leaves the      *)
(* ledger and the decrypt grants as the first call left them.              *)
(***************************************************************************)
C16_GrantAccessIdempotent ==
    \A u \in Users, id \in 0..MaxPredictions :
        LET once  == grantAccess(Ledger, u, id)
            twice == grantAccess(once.ledger, u, id)
        IN  /\ twice.err = once.err
            /\ twice.ledger = once.ledger

\* one prediction, no bet, and the same address has had grantAccess return
\* twice in a row
C16_Witness ==
    /\ lastTx.op = "grantAccess"
    /\ txCount = 3
    /\ Len(events) = 1
    /\ Cardinality(granted) = 1

(***************************************************************************)
(* C17: the decrypt grants only grow: no step of the contract, whether     *)
(* createPrediction, placeBet, grantAccess, a view or a call that fails,   *)
(* removes a pair of handle and address that was granted before.           *)
(***************************************************************************)
C17_GrantsOnlyGrow == [][acl \subseteq acl']_vars

\* an address is still allowed on a handle that a prediction held in one of
\* its aggregates before a later bet replaced it
C17_Witness ==
    \E m \in Ids, u \in Users :
        \E h \in aggregates[m + 1] \ CurrentAggregates(Ledger, m) :
            /\ u \notin Bettors(m)
            /\ IsAllowed(acl, h, u)

(***************************************************************************)
(* C18: for an existing prediction getOptionCounts returns a sequence of   *)
(* exactly optionCount handles whose element i is the current              *)
(* optionCounts[i]; no view returns a slot of optionCounts with index >=   *)
(* optionCount: those slots are never written, and every handle that       *)
(* getOptionCounts and getPredictionTotals return is a written one.        *)
(***************************************************************************)
C18_OptionCountsView ==
    \A m \in Ids :
        LET prediction == PredictionOf(predictions, m)
            counts     == getOptionCounts(Ledger, m)
            totals     == getPredictionTotals(Ledger, m)
        IN  /\ counts.err = ""
            /\ Len(counts.ret) = prediction.optionCount
            /\ \A i \in 1..prediction.optionCount :
                  counts.ret[i] = prediction.optionCounts[i] /\ counts.ret[i] # NoHandle
            /\ \A i \in (prediction.optionCount + 1)..4 :
                  prediction.optionCounts[i] = NoHandle
            /\ totals.err = ""
            /\ totals.ret = <<prediction.totalStaked, prediction.totalBets>>
            /\ \A j \in 1..2 : totals.ret[j] # NoHandle

\* a prediction of 3 options after a bet on option 1: getOptionCounts
\* returns 3 handles, which decrypt to 0, 1, 0
C18_Witness ==
    \E m \in Ids :
        LET counts == getOptionCounts(Ledger, m)
        IN  /\ PredictionOf(predictions, m).optionCount = 3
            /\ Bettors(m) # {}
            /\ Len(counts.ret) = 3
            /\ [i \in 1..3 |-> Decrypt32(ciphertexts, counts.ret[i])] = <<0, 1, 0>>

(***************************************************************************)
(* C19: for an existing prediction m, getUserBet(m, p) returns             *)
(* hasBet = FALSE with the never-written (zero) choice and amount handles  *)
(* exactly when no bet of p on m was accepted, and hasBet = TRUE with the  *)
(* stored choice and amount handles once a bet of p on m was accepted.     *)
(***************************************************************************)
\* the BetPlaced records of the sequence es for prediction m and bettor u
BetEventsOf(es, m, u) ==
    {j \in 1..Len(es) : /\ es[j].name = "BetPlaced"
                        /\ es[j].predictionId = m
                        /\ es[j].bettor = u}

C19_UserBetView ==
    \A m \in Ids, p \in Users :
        LET r == getUserBet(Ledger, m, p)
        IN  /\ r.err = ""
            /\ IF BetEventsOf(events, m, p) = {}
               THEN r.ret = <<FALSE, NoHandle, NoHandle>>
               ELSE /\ r.ret[1] = TRUE
                    /\ r.ret[2] # NoHandle /\ r.ret[3] # NoHandle
                    /\ <<m, p>> \in DOMAIN bets
                    /\ r.ret[2] = bets[<<m, p>>].choice
                    /\ r.ret[3] = bets[<<m, p>>].amount
                    /\ IsAllowed(acl, r.ret[2], p) /\ IsAllowed(acl, r.ret[3], p)

\* one address has a bet with choice 1 on the second prediction and none on
\* the first, the other address has no bet at all
C19_Witness ==
    \E u \in Users, w \in Users :
        /\ Len(predictions) = 2
        /\ getUserBet(Ledger, 1, u).ret[1] = TRUE
        /\ Decrypt32(ciphertexts, getUserBet(Ledger, 1, u).ret[2]) = 1
        /\ getUserBet(Ledger, 0, u).ret = <<FALSE, NoHandle, NoHandle>>
        /\ getUserBet(Ledger, 1, w).ret = <<FALSE, NoHandle, NoHandle>>

(***************************************************************************)
(* C20: a bet record is created at most once for a pair of prediction and  *)
(* address and never changes afterwards: once exists is TRUE for (m, p),   *)
(* no step changes the record's choice handle, amount handle or exists     *)
(* flag, and no step emits another BetPlaced for (m, p).                   *)
(***************************************************************************)
C20_BetRecordImmutable ==
    [][\A m \in Ids, p \in Users :
          BetOf(bets, m, p).exists
            => /\ BetOf(bets', m, p) = BetOf(bets, m, p)
               /\ BetEventsOf(events', m, p) = BetEventsOf(events, m, p)
               /\ Cardinality(BetEventsOf(events, m, p)) = 1]_vars

\* both addresses have bet on one prediction, each with one BetPlaced
\* record, and a grantAccess followed the bets
C20_Witness ==
    \E m \in Ids :
        /\ lastTx.op = "grantAccess"
        /\ txCount = 4
        /\ Bettors(m) = Users
        /\ \A p \in Users : Cardinality(BetEventsOf(events, m, p)) = 1

(***************************************************************************)
(* C21: the plaintext metadata of a prediction (title, options,            *)
(* optionCount, createdAt, creator) is fixed at creation: no step, be it a *)
(* createPrediction, placeBet or grantAccess that returns or one that      *)
(* fails, changes it, and the prediction is never removed.                 *)
(***************************************************************************)
\* the plaintext metadata of a Prediction
MetaOf(prediction) ==
    <<prediction.title, prediction.options, prediction.optionCount,
      prediction.createdAt, prediction.creator>>

C21_MetadataImmutable ==
    [][/\ Len(predictions') >= Len(predictions)
       /\ \A k \in 1..Len(predictions) : MetaOf(predictions'[k]) = MetaOf(predictions[k])]_vars

\* the first prediction, of 2 options, has a bet and a grantAccess behind it,
\* a second prediction of 4 options by another creator followed, and the
\* first still carries the metadata of its PredictionCreated record
C21_Witness ==
    /\ Len(predictions) = 2
    /\ lastTx.op = "createPrediction"
    /\ Bettors(0) # {}
    /\ \E u \in Users : <<0, u>> \in granted
    /\ PredictionOf(predictions, 1).optionCount = 4
    /\ PredictionOf(predictions, 1).creator # PredictionOf(predictions, 0).creator
    /\ getPredictionMeta(Ledger, 0).ret
         = <<CreatedEvents[1].title, 2, 1700000000, CreatedEvents[1].creator>>
    /\ getPredictionOptions(Ledger, 0).ret = <<"Approve", "Reject">>

(***************************************************************************)
(* C22 as stated: the plaintext of a prediction's totalStaked never        *)
(* decreases from one state to the next, over every sequence of accepted   *)
(* bets with stakes in (0, 2^64-1].                                        *)
(* FHE.add on euint64 wraps: bets of 2^64-1 and of 1 take the total from   *)
(* 2^64-1 to 0, so TLC refutes this statement.                             *)
(***************************************************************************)
C22_TotalStakedNeverDecreases ==
    [][\A m \in Ids : ~Gt(TotalStakedOf(m), TotalStakedOf(m)')]_vars

\* the sum of the amounts staked on m is 2^64 or more
StakedSumOverflows(m) ==
    LET cols == [i \in 1..4 |-> LimbSum(m, i, Len(events))]
    IN  Reduced(cols, 4) \div LimbBase > 0

(***************************************************************************)
(* C22 as amended: the plaintext of a prediction's totalStaked does not    *)
(* decrease on a step after which the sum of the stakes accepted on the    *)
(* prediction is at most 2^64-1; the accepted bet that takes the sum to    *)
(* 2^64 or more makes the total wrap around and decrease.                  *)
(***************************************************************************)
C22_TotalStakedGrowsUntilWrap ==
    [][\A m \in Ids :
          LET old == TotalStakedOf(m)
              new == TotalStakedOf(m)'
          IN  /\ Gt(old, new) => StakedSumOverflows(m)'
              /\ (new # old /\ StakedSumOverflows(m)' /\ ~StakedSumOverflows(m))
                    => Gt(old, new)]_vars

\* two bets of 1 on one prediction: the total went 0, 1, 2
C22_Witness ==
    \E m \in Ids :
        /\ lastTx.op = "placeBet"
        /\ Cardinality(BetEvents(m)) = 2
        /\ ~StakedSumOverflows(m)
        /\ TotalStakedOf(m) = Uint64Of(2)

(***************************************************************************)
(* C23: the bet record stored by an accepted placeBet holds an amount      *)
(* whose plaintext is the attached msg.value and a choice whose plaintext  *)
(* is the submitted, verified choice, and right after the bet the bettor   *)
(* is allowed on both.                                                     *)
(***************************************************************************)
C23_BetRecordContents ==
    \A m \in Ids : \A u \in Users \ Bettors(m) :
        \A c \in 0..MaxChoice, v \in {x \in Values : InRange(x)} :
            LET r   == placeBet(Ledger, u, m, c, TRUE, v)
                bet == BetOf(r.ledger.bets, m, u)
                amount == Decrypt64(r.ledger.ciphertexts, bet.amount)
            IN  /\ r.err = ""
                /\ bet.exists
                /\ [i \in 1..16 |-> IF i <= 4 THEN amount[i] ELSE 0] = v
                /\ Decrypt32(r.ledger.ciphertexts, bet.choice) = c
                /\ bet.choice # bet.amount
                /\ IsAllowed(r.ledger.acl, bet.choice, u)
                /\ IsAllowed(r.ledger.acl, bet.amount, u)

\* the last transaction stored a bet of 2^64-1 on option 1, and its bettor
\* is allowed on the choice and on the amount
C23_Witness ==
    \E m \in Ids, u \in Users :
        /\ lastTx.op = "placeBet"
        /\ events[Len(events)].bettor = u /\ events[Len(events)].predictionId = m
        /\ BetOf(bets, m, u).exists
        /\ Decrypt64(ciphertexts, BetOf(bets, m, u).amount) = [i \in 1..4 |-> LimbBase - 1]
        /\ Decrypt32(ciphertexts, BetOf(bets, m, u).choice) = 1
        /\ IsAllowed(acl, BetOf(bets, m, u).choice, u)
        /\ IsAllowed(acl, BetOf(bets, m, u).amount, u)

(***************************************************************************)
(* C24: every createPrediction that returns emits exactly one              *)
(* PredictionCreated (new id, caller, title, optionCount), every accepted  *)
(* placeBet exactly one BetPlaced (prediction id, caller, msg.value), and  *)
(* failed calls and grantAccess emit nothing; so in every state the number *)
(* of BetPlaced records of a prediction is its number of stored bets and   *)
(* the number of PredictionCreated records is the number of predictions.   *)
(***************************************************************************)
\* the record, if any, that a call with result r appended to the records of L
Emitted(L, r) == SubSeq(r.ledger.events, Len(L.events) + 1, Len(r.ledger.events))

C24_EmittedRecords ==
    /\ Len(CreatedEvents) = Len(predictions)
    /\ \A m \in Ids : Cardinality(BetEvents(m)) = Cardinality({key \in DOMAIN bets : key[1] = m})
    /\ Len(events) = Len(predictions) + Cardinality(DOMAIN bets)
    /\ \A u \in Users, n \in 0..MaxOptionsLen, title \in Titles, timestamp \in Timestamps :
          LET r == createPrediction(Ledger, u, timestamp, title, SubSeq(OptionNames, 1, n))
          IN  Emitted(Ledger, r)
                = IF n \in 2..4
                  THEN <<[name |-> "PredictionCreated", predictionId |-> Len(predictions),
                          creator |-> u, title |-> title, optionCount |-> n]>>
                  ELSE <<>>
    /\ \A u \in Users, id \in 0..MaxPredictions :
          /\ Emitted(Ledger, grantAccess(Ledger, u, id)) = <<>>
          /\ \A v \in Values :
                IF placeBetError(Ledger, u, id, v) # ""
                THEN Emitted(Ledger, placeBet(Ledger, u, id, 0, TRUE, v)) = <<>>
                ELSE \A c \in 0..MaxChoice :
                        /\ Emitted(Ledger, placeBet(Ledger, u, id, c, FALSE, v)) = <<>>
                        /\ Emitted(Ledger, placeBet(Ledger, u, id, c, TRUE, v))
                             = <<[name |-> "BetPlaced", predictionId |-> id, bettor |-> u,
                                  amount |-> [i \in 1..4 |-> v[i]]]>>

\* two predictions, one accepted bet and one grantAccess: three records
C24_Witness ==
    /\ txCount = 4
    /\ Len(CreatedEvents) = 2
    /\ granted # {}
    /\ \E m \in Ids : Cardinality(BetEvents(m)) = 1
    /\ Len(events) = 3

(***************************************************************************)
(* C25 as stated: an address that has obtained permission on a             *)
(* prediction's aggregates through an accepted placeBet or a grantAccess   *)
(* is allowed on the prediction's current totalStaked, totalBets and       *)
(* optionCounts[0..optionCount) in every later state, also after other     *)
(* addresses have bet on the prediction, without another grantAccess.      *)
(* Every FHE.add of a later bet returns a new handle, which placeBet       *)
(* allows to the contract and to that bettor only, so TLC refutes this     *)
(* statement.                                                              *)
(***************************************************************************)
\* u is allowed on every current aggregate of prediction m in ledger L
AllowedOnCurrent(L, m, u) == \A h \in CurrentAggregates(L, m) : IsAllowed(L.acl, h, u)

C25_PermissionOnCurrentForever ==
    \A m \in Ids, u \in Users :
        (u \in Bettors(m) \/ <<m, u>> \in granted) => AllowedOnCurrent(Ledger, m, u)

(***************************************************************************)
(* C25 as amended: an address allowed on a prediction's current aggregates *)
(* keeps the permission on those handles in every later state, and is      *)
(* allowed on the current aggregates until another address's bet on the    *)
(* prediction is accepted; that bet replaces every aggregate by a new      *)
(* handle on which the address holds no permission until it calls          *)
(* grantAccess again.                                                      *)
(***************************************************************************)
C25_PermissionUntilNextBet ==
    \A m \in Ids, u \in Users :
        AllowedOnCurrent(Ledger, m, u) =>
            /\ \A w \in Users, k \in Ids :
                  AllowedOnCurrent(grantAccess(Ledger, w, k).ledger, m, u)
            /\ \A w \in Users, k \in Ids, v \in Values :
                  placeBetError(Ledger, w, k, v) = "" =>
                      \A c \in 0..MaxChoice :
                          LET r == placeBet(Ledger, w, k, c, TRUE, v)
                          IN  /\ r.err = ""
                              /\ \A h \in CurrentAggregates(Ledger, m) :
                                    IsAllowed(r.ledger.acl, h, u)
                              /\ IF k = m /\ w # u
                                 THEN \A h \in CurrentAggregates(r.ledger, m) :
                                          ~IsAllowed(r.ledger.acl, h, u)
                                 ELSE AllowedOnCurrent(r.ledger, m, u)
            /\ \A w \in Users, n \in 2..4, title \in Titles, timestamp \in Timestamps :
                  AllowedOnCurrent(createPrediction(Ledger, w, timestamp, title,
                                                    SubSeq(OptionNames, 1, n)).ledger, m, u)

\* an address bet on the prediction and called grantAccess, then another
\* address bet: the first is allowed on the aggregate handles that its own
\* bet produced and on none of the current ones
C25_Witness ==
    \E m \in Ids, u \in Users, w \in Users :
        /\ lastTx.op = "placeBet"
        /\ events[Len(events)].bettor = w /\ events[Len(events)].predictionId = m
        /\ u # w /\ u \in Bettors(m) /\ <<m, u>> \in granted
        /\ \A h \in CurrentAggregates(Ledger, m) : ~IsAllowed(acl, h, u)
        /\ Cardinality({h \in aggregates[m + 1] : IsAllowed(acl, h, u)})
              = 2 + PredictionOf(predictions, m).optionCount

(***************************************************************************)
(* C26: in every reachable state the only parties allowed on the choice or *)
(* the amount of the bet of address p on prediction m are p and the        *)
(* contract itself: no placeBet or grantAccess by another address, on this *)
(* or another prediction, allows that address on p's bet.                  *)
(***************************************************************************)
C26_BetPermissionOwnerOnly ==
    \A key \in DOMAIN bets :
        \A h \in {bets[key].choice, bets[key].amount} :
            /\ {a \in Users \cup {This} : IsAllowed(acl, h, a)} = {key[2], This}
            /\ \A g \in acl : g[1] = h => g[2] \in {key[2], This}

\* both addresses have bet on the prediction, the other address after p and
\* with a grantAccess on top, and it is allowed on neither handle of p's bet
C26_Witness ==
    \E m \in Ids, p \in Users, w \in Users :
        /\ p # w
        /\ Bettors(m) = {p, w}
        /\ <<m, w>> \in granted
        /\ lastTx.op = "grantAccess"
        /\ BetOf(bets, m, p).choice < BetOf(bets, m, w).choice
        /\ ~IsAllowed(acl, BetOf(bets, m, p).choice, w)
        /\ ~IsAllowed(acl, BetOf(bets, m, p).amount, w)
        /\ IsAllowed(acl, BetOf(bets, m, p).choice, p)
        /\ IsAllowed(acl, BetOf(bets, m, p).amount, This)

(***************************************************************************)
(* C27: in every reachable state the contract itself is allowed on the     *)
(* current ciphertext of every prediction's totalStaked, totalBets and     *)
(* optionCounts[i] for i < optionCount, and on the choice and amount of    *)
(* every stored bet, so the FHE arithmetic of the next placeBet on them is *)
(* authorised.                                                             *)
(***************************************************************************)
C27_ContractPermission ==
    /\ \A m \in Ids : AllowedOnCurrent(Ledger, m, This)
    /\ \A key \in DOMAIN bets :
          IsAllowed(acl, bets[key].choice, This) /\ IsAllowed(acl, bets[key].amount, This)
    /\ \A m \in Ids : NoHandle \notin CurrentAggregates(Ledger, m)

\* one prediction fresh from createPrediction and one whose aggregates two
\* bets have replaced
C27_Witness ==
    \E m \in Ids, k \in Ids :
        /\ Bettors(m) = Users
        /\ Bettors(k) = {}
        /\ aggregates[k + 1] = CurrentAggregates(Ledger, k)
        /\ AllowedOnCurrent(Ledger, m, This)
        /\ AllowedOnCurrent(Ledger, k, This)

(***************************************************************************)
(* C28: for every prediction with optionCount < 4, the slots of            *)
(* optionCounts at index >= optionCount are never written by               *)
(* createPrediction, placeBet or grantAccess, no grant is issued on them,  *)
(* and their plaintext stays zero in every reachable state.                *)
(***************************************************************************)
\* the slots of optionCounts of prediction m at index >= optionCount (one-based)
UnusedSlots(L, m) ==
    LET prediction == PredictionOf(L.predictions, m)
    IN  [i \in (prediction.optionCount + 1)..4 |-> prediction.optionCounts[i]]

C28_UnusedSlotsUntouched ==
    /\ \A g \in acl : g[1] # NoHandle
    /\ \A m \in Ids :
          /\ \A i \in DOMAIN UnusedSlots(Ledger, m) :
                /\ UnusedSlots(Ledger, m)[i] = NoHandle
                /\ Decrypt32(ciphertexts, UnusedSlots(Ledger, m)[i]) = 0
          /\ \A u \in Users :
                /\ UnusedSlots(grantAccess(Ledger, u, m).ledger, m) = UnusedSlots(Ledger, m)
                /\ \A g \in grantAccess(Ledger, u, m).ledger.acl : g[1] # NoHandle
                /\ \A c \in 0..MaxChoice :
                      UnusedSlots(placeBet(Ledger, u, m, c, TRUE, Uint256Of(1)).ledger, m)
                          = UnusedSlots(Ledger, m)

\* a prediction of 2 options after a bet on option 2 and a grantAccess: its
\* slots 2 and 3 are still the zero handle
C28_Witness ==
    \E m \in Ids, u \in Users :
        /\ PredictionOf(predictions, m).optionCount = 2
        /\ u \in Bettors(m) /\ ChoiceOf(m, u) = 2
        /\ granted # {}
        /\ UnusedSlots(Ledger, m) = [i \in 3..4 |-> NoHandle]

(***************************************************************************)
(* C29: every view that takes a prediction id (getPredictionMeta,          *)
(* getPredictionOptions, getPredictionTotals, getOptionCounts, getUserBet) *)
(* fails with InvalidPrediction exactly when the id is not below the       *)
(* number of predictions and returns otherwise, whatever the grants are,   *)
(* and changes no state.                                                   *)
(***************************************************************************)
\* the error a view must report for predictionId
ViewError(predictionId) ==
    IF predictionId >= Len(predictions) THEN "InvalidPrediction" ELSE ""

\* the ledger with every grant removed
WithoutGrants == [Ledger EXCEPT !.acl = {}]

C29_ViewsFailOnlyOnInvalidId ==
    \A id \in 0..MaxPredictions :
        /\ getPredictionMeta(Ledger, id).err = ViewError(id)
        /\ getPredictionOptions(Ledger, id).err = ViewError(id)
        /\ getPredictionTotals(Ledger, id).err = ViewError(id)
        /\ getOptionCounts(Ledger, id).err = ViewError(id)
        /\ getPredictionMeta(WithoutGrants, id) = getPredictionMeta(Ledger, id)
        /\ getPredictionOptions(WithoutGrants, id) = getPredictionOptions(Ledger, id)
        /\ getPredictionTotals(WithoutGrants, id) = getPredictionTotals(Ledger, id)
        /\ getOptionCounts(WithoutGrants, id) = getOptionCounts(Ledger, id)
        /\ \A user \in Users :
              /\ getUserBet(Ledger, id, user).err = ViewError(id)
              /\ getUserBet(WithoutGrants, id, user) = getUserBet(Ledger, id, user)
        /\ id < Len(predictions) =>
              getPredictionOptions(Ledger, id).ret = PredictionOf(predictions, id).options

\* one prediction with a bet, and an address without any grant: the views
\* return for id 0 and fail for id 1
C29_Witness ==
    /\ Len(predictions) = 1
    /\ Bettors(0) # {}
    /\ \E u \in Users : \A g \in acl : g[2] # u
    /\ getPredictionMeta(Ledger, 0).err = "" /\ getPredictionOptions(Ledger, 0).err = ""
    /\ getUserBet(Ledger, 0, "alice").err = ""
    /\ getPredictionMeta(Ledger, 1).err = "InvalidPrediction"
    /\ getPredictionOptions(Ledger, 1).err = "InvalidPrediction"
    /\ getUserBet(Ledger, 1, "alice").err = "InvalidPrediction"

(***************************************************************************)
(* C30: a createPrediction that returns produces a prediction whose        *)
(* totalStaked, totalBets and optionCounts[0..optionCount) all have        *)
(* plaintext 0, on which no address has a bet, whose creator is the        *)
(* caller, and it leaves every existing prediction and every existing bet  *)
(* record as it was.                                                       *)
(***************************************************************************)
C30_FreshPrediction ==
    \A u \in Users, n \in 2..4, title \in Titles, timestamp \in Timestamps :
        LET r   == createPrediction(Ledger, u, timestamp, title, SubSeq(OptionNames, 1, n))
            L2  == r.ledger
            new == PredictionOf(L2.predictions, r.ret)
        IN  /\ r.err = ""
            /\ r.ret = Len(predictions)
            /\ Len(L2.predictions) = Len(predictions) + 1
            /\ Decrypt64(L2.ciphertexts, new.totalStaked) = Uint64Of(0)
            /\ Decrypt32(L2.ciphertexts, new.totalBets) = 0
            /\ new.optionCount = n
            /\ \A i \in 0..(n - 1) : OptionCountOf(L2, r.ret, i) = 0
            /\ \A w \in Users : ~BetOf(L2.bets, r.ret, w).exists
            /\ new.creator = u
            /\ SubSeq(L2.predictions, 1, Len(predictions)) = predictions
            /\ L2.bets = bets
            /\ \A h \in 1..Len(ciphertexts) : L2.ciphertexts[h] = ciphertexts[h]

\* a second prediction was created after a bet on the first: its counters
\* are 0 and it has no bet, the first keeps its bet and its total of 1
C30_Witness ==
    /\ lastTx.op = "createPrediction"
    /\ lastTx.ret = 1
    /\ Len(predictions) = 2
    /\ Bettors(0) # {} /\ Bettors(1) = {}
    /\ TotalBetsOf(0) = 1
    /\ TotalBetsOf(1) = 0 /\ TotalStakedOf(1) = Uint64Of(0) /\ OptionCountsSum(1) = 0
    /\ PredictionOf(predictions, 1).creator \notin Bettors(0)

(***************************************************************************)
(* C31: an accepted placeBet by address p on prediction m changes only     *)
(* m's totalStaked, totalBets and optionCounts[0..optionCount) and the bet *)
(* record of (m, p): every other prediction, the metadata and the unused   *)
(* slots of m, the bet record of every other pair and the number of        *)
(* predictions stay as they were.                                          *)
(***************************************************************************)
C31_PlaceBetFrame ==
    \A m \in Ids : \A p \in Users \ Bettors(m) :
        \A v \in {x \in Values : InRange(x)}, c \in 0..MaxChoice :
            LET r  == placeBet(Ledger, p, m, c, TRUE, v)
                L2 == r.ledger
            IN  /\ r.err = ""
                /\ Len(L2.predictions) = Len(predictions)
                /\ \A k \in Ids \ {m} :
                      PredictionOf(L2.predictions, k) = PredictionOf(predictions, k)
                /\ MetaOf(PredictionOf(L2.predictions, m)) = MetaOf(PredictionOf(predictions, m))
                /\ UnusedSlots(L2, m) = UnusedSlots(Ledger, m)
                /\ DOMAIN L2.bets = DOMAIN bets \cup {<<m, p>>}
                /\ \A key \in DOMAIN bets : L2.bets[key] = bets[key]
                /\ \A k \in Ids \ {m} :
                      /\ Decrypt64(L2.ciphertexts, PredictionOf(L2.predictions, k).totalStaked)
                            = TotalStakedOf(k)
                      /\ Decrypt32(L2.ciphertexts, PredictionOf(L2.predictions, k).totalBets)
                            = TotalBetsOf(k)
                      /\ \A i \in 0..3 : OptionCountOf(L2, k, i) = OptionCountOf(Ledger, k, i)

\* the last bet went to the second prediction, by another address than the
\* bet on the first: the first prediction still shows its one bet of 2^64-1
\* on option 0
C31_Witness ==
    \E p \in Users, w \in Users :
        /\ Len(predictions) = 2
        /\ lastTx.op = "placeBet"
        /\ events[Len(events)].predictionId = 1 /\ events[Len(events)].bettor = p
        /\ p # w
        /\ Bettors(0) = {w} /\ Bettors(1) = {p}
        /\ TotalBetsOf(0) = 1 /\ OptionCountOf(Ledger, 0, 0) = 1
        /\ TotalStakedOf(0) = ToUint64(MaxUint64)
        /\ TotalStakedOf(1) = Uint64Of(1)

(***************************************************************************)
(* C32: the one-bet rule is scoped to the pair of prediction and address:  *)
(* an address with a bet on prediction m can still have one bet accepted   *)
(* on every other prediction, and every address, the prediction's creator  *)
(* included, can have one bet accepted on the same prediction whatever     *)
(* bets the other addresses have placed on it.                             *)
(***************************************************************************)
C32_OneBetPerPair ==
    \A m \in Ids, u \in Users :
        \A c \in 0..MaxChoice, v \in {x \in Values : InRange(x)} :
            LET r == placeBet(Ledger, u, m, c, TRUE, v)
            IN  IF <<m, u>> \in DOMAIN bets
                THEN r.err = "BetAlreadyPlaced"
                ELSE /\ r.err = ""
                     /\ BetOf(r.ledger.bets, m, u).exists
                     /\ \A k \in Ids, w \in Users :
                           <<k, w>> # <<m, u>>
                              => BetOf(r.ledger.bets, k, w).exists = BetOf(bets, k, w).exists

\* the creator of the first prediction has a bet on both predictions
C32_Witness ==
    \E u \in Users :
        /\ Len(predictions) = 2
        /\ PredictionOf(predictions, 0).creator = u
        /\ Bettors(0) = {u} /\ Bettors(1) = {u}
        /\ Cardinality(BetEventsOf(events, 0, u)) = 1
        /\ Cardinality(BetEventsOf(events, 1, u)) = 1

(***************************************************************************)
(* C33: the plaintexts of a prediction's totalStaked, totalBets and        *)
(* optionCounts after a set of accepted bets by distinct addresses do not  *)
(* depend on the order of the bets, nor on how grantAccess and             *)
(* createPrediction calls are interleaved with them: in every reachable    *)
(* state, whatever interleaving led to it, the plaintexts are those that   *)
(* the set of stored bets determines, and grantAccess and                  *)
(* createPrediction leave them as they are.                                *)
(***************************************************************************)
\* the plaintexts of the aggregates of prediction m in ledger L
AggregatePlaintexts(L, m) ==
    LET prediction == PredictionOf(L.predictions, m)
    IN  <<Decrypt64(L.ciphertexts, prediction.totalStaked),
          Decrypt32(L.ciphertexts, prediction.totalBets),
          [i \in 1..4 |-> Decrypt32(L.ciphertexts, prediction.optionCounts[i])]>>

\* the stored bets of prediction m as a set of <<address, choice, amount>>
StoredBets(m) ==
    {<<u, ChoiceOf(m, u), Decrypt64(ciphertexts, BetOf(bets, m, u).amount)>> : u \in Bettors(m)}

RECURSIVE LimbSumOver(_, _)
\* the sum of limb i of the amounts of the set S of stored bets
LimbSumOver(S, i) ==
    IF S = {} THEN 0
    ELSE LET b == CHOOSE x \in S : TRUE
         IN  b[3][i] + LimbSumOver(S \ {b}, i)

\* the plaintexts that the set S of stored bets determines
PlaintextsOf(S) ==
    LET cols == [i \in 1..4 |-> LimbSumOver(S, i)]
    IN  <<[i \in 1..4 |-> Reduced(cols, i) % LimbBase],
          Cardinality(S),
          [i \in 1..4 |-> Cardinality({b \in S : b[2] = i - 1})]>>

C33_OrderIndependent ==
    \A m \in Ids :
        /\ LET n == PredictionOf(predictions, m).optionCount
               p == PlaintextsOf(StoredBets(m))
           IN  AggregatePlaintexts(Ledger, m)
                 = <<p[1], p[2], [i \in 1..4 |-> IF i <= n THEN p[3][i] ELSE 0]>>
        /\ \A w \in Users, k \in Ids :
              AggregatePlaintexts(grantAccess(Ledger, w, k).ledger, m)
                 = AggregatePlaintexts(Ledger, m)
        /\ \A w \in Users, n \in 2..4, title \in Titles, timestamp \in Timestamps :
              AggregatePlaintexts(createPrediction(Ledger, w, timestamp, title,
                                                   SubSeq(OptionNames, 1, n)).ledger, m)
                 = AggregatePlaintexts(Ledger, m)

\* bets of 1 on option 0 and of 2^64-1 on option 1 were accepted on one
\* prediction, the smaller bet last, with a grantAccess among the calls
C33_Witness ==
    \E m \in Ids, u \in Users, w \in Users :
        /\ lastTx.op = "placeBet"
        /\ granted # {}
        /\ events[Len(events)].bettor = u /\ events[Len(events)].amount = Uint64Of(1)
        /\ events[Len(events)].predictionId = m
        /\ ChoiceOf(m, u) = 0
        /\ w \in Bettors(m) /\ ChoiceOf(m, w) = 1
        /\ BetOf(bets, m, w).choice < BetOf(bets, m, u).choice
        /\ AggregatePlaintexts(Ledger, m)[1] = Uint64Of(0)
        /\ AggregatePlaintexts(Ledger, m)[2] = 2
        /\ AggregatePlaintexts(Ledger, m)[3][1] = 1 /\ AggregatePlaintexts(Ledger, m)[3][2] = 1

(***************************************************************************)
(* C34: a placeBet whose proof the substrate rejects fails as a whole,     *)
(* with no bet recorded and no aggregate changed; the proof is verified    *)
(* after the three checks, so a call with an invalid proof that also fails *)
(* a check reports that check's error (InvalidPrediction,                  *)
(* InvalidBetAmount or BetAlreadyPlaced).                                  *)
(***************************************************************************)
C34_InvalidProof ==
    \A u \in Users, id \in 0..MaxPredictions, v \in Values, c \in 0..MaxChoice :
        LET r == placeBet(Ledger, u, id, c, FALSE, v)
        IN  /\ r.ledger = Ledger
            /\ r.err = IF id >= Len(predictions) THEN "InvalidPrediction"
                       ELSE IF ~InRange(v) THEN "InvalidBetAmount"
                       ELSE IF <<id, u>> \in DOMAIN bets THEN "BetAlreadyPlaced"
                       ELSE "InvalidProof"

\* a prediction with one bet: with a proof that is rejected, the bettor's
\* second bet reports BetAlreadyPlaced, the other address's bet reports the
\* proof, or the amount when the stake is 2^64, and the prediction keeps
\* its one bet
C34_Witness ==
    \E m \in Ids, u \in Users, w \in Users :
        /\ Bettors(m) = {u} /\ w # u
        /\ TotalBetsOf(m) = 1
        /\ placeBet(Ledger, u, m, 1, FALSE, Uint256Of(1)).err = "BetAlreadyPlaced"
        /\ placeBet(Ledger, w, m, 1, FALSE, MaxUint64).err = "InvalidProof"
        /\ placeBet(Ledger, w, m, 1, FALSE, TwoPow64).err = "InvalidBetAmount"
        /\ placeBet(Ledger, w, Len(predictions), 1, FALSE, MaxUint64).err = "InvalidPrediction"
        /\ placeBet(Ledger, w, m, 1, FALSE, MaxUint64).ledger = Ledger

(***************************************************************************)
(* C35: grantAccess changes nothing but the decrypt grants: the number of  *)
(* predictions, every prediction's metadata, aggregate handles and         *)
(* plaintexts, and every bet record are the same before and after a        *)
(* grantAccess that returns, and it emits no record.                       *)
(***************************************************************************)
C35_GrantAccessFrame ==
    \A u \in Users, m \in Ids :
        LET r  == grantAccess(Ledger, u, m)
            L2 == r.ledger
        IN  /\ r.err = ""
            /\ Len(L2.predictions) = Len(predictions)
            /\ \A k \in Ids :
                  /\ MetaOf(PredictionOf(L2.predictions, k)) = MetaOf(PredictionOf(predictions, k))
                  /\ PredictionSlots(L2, k) = PredictionSlots(Ledger, k)
                  /\ AggregatePlaintexts(L2, k) = AggregatePlaintexts(Ledger, k)
            /\ L2.bets = bets
            /\ L2.ciphertexts = ciphertexts
            /\ L2.events = events
            /\ acl \subseteq L2.acl
            /\ L2 = [Ledger EXCEPT !.acl = L2.acl]

\* the last transaction was the grantAccess of an address without a bet, on
\* a prediction with one bet: the prediction shows the bet, the BetPlaced
\* record is the last record, and the caller has its grants
C35_Witness ==
    \E m \in Ids, u \in Users :
        /\ lastTx.op = "grantAccess"
        /\ <<m, u>> \in granted /\ u \notin Bettors(m)
        /\ AllowedOnCurrent(Ledger, m, u)
        /\ Cardinality(Bettors(m)) = 1
        /\ TotalBetsOf(m) = 1
        /\ events[Len(events)].name = "BetPlaced"
        /\ Len(events) = 2

(***************************************************************************)
(* C36: in every reachable state every stored prediction has               *)
(* optionCount = length(options) and 2 <= optionCount <= 4, and no bet     *)
(* record with exists = TRUE is stored for a prediction id that is not     *)
(* below the number of predictions.                                        *)
(***************************************************************************)
C36_WellFormedLedger ==
    /\ \A k \in 1..Len(predictions) :
          /\ predictions[k].optionCount = Len(predictions[k].options)
          /\ predictions[k].optionCount \in 2..4
    /\ \A key \in DOMAIN bets : bets[key].exists => key[1] \in Ids
    /\ \A id \in Len(predictions)..MaxPredictions, u \in Users :
          ~BetOf(bets, id, u).exists

\* predictions of 2 and of 4 options, with a bet on the second, the last id
C36_Witness ==
    /\ Len(predictions) = 2
    /\ PredictionOf(predictions, 0).optionCount = 2
    /\ Len(PredictionOf(predictions, 1).options) = 4
    /\ Bettors(1) # {}
    /\ \A key \in DOMAIN bets : key[1] = 1

(***************************************************************************)
(* C37: the ether held by the contract never decreases, no function        *)
(* transfers value out, and in every reachable state the balance is the    *)
(* unbounded sum of the amounts of all BetPlaced records of all            *)
(* predictions; it is the sum of the predictions' decrypted totalStaked    *)
(* exactly while no prediction's sum of stakes has reached 2^64.           *)
(***************************************************************************)
RECURSIVE AllLimbSum(_, _)
\* the sum of limb i of the amounts of the BetPlaced records among events[1..j]
AllLimbSum(i, j) ==
    IF j = 0 THEN 0
    ELSE AllLimbSum(i, j - 1) + (IF events[j].name = "BetPlaced" THEN events[j].amount[i] ELSE 0)

RECURSIVE TotalsLimbSum(_, _)
\* the sum of limb i of the decrypted totalStaked of predictions 0..(k - 1)
TotalsLimbSum(i, k) ==
    IF k = 0 THEN 0 ELSE TotalsLimbSum(i, k - 1) + TotalStakedOf(k - 1)[i]

\* the uint256 whose value is the sum over i of cols[i] * LimbBase^(i - 1)
Uint256OfColumns(cols) ==
    LET wide == [i \in 1..16 |-> IF i <= 4 THEN cols[i] ELSE 0]
    IN  [i \in 1..16 |-> Reduced(wide, i) % LimbBase]

\* the sum of the amounts of all BetPlaced records, not reduced modulo 2^64
ReceivedValue == Uint256OfColumns([i \in 1..4 |-> AllLimbSum(i, Len(events))])

\* the sum of the decrypted totalStaked of all predictions
StakedTotalsValue == Uint256OfColumns([i \in 1..4 |-> TotalsLimbSum(i, Len(predictions))])

BalanceIsReceivedValue ==
    /\ balance = ReceivedValue
    /\ (balance = StakedTotalsValue) <=> (\A m \in Ids : ~StakedSumOverflows(m))

C37_BalanceNeverDecreases == []BalanceIsReceivedValue /\ [][~Gt(balance, balance')]_vars

\* bets of 2^64-1 and of 1 on one prediction: the contract holds 2^64 while
\* the prediction's totalStaked decrypts to 0
C37_Witness ==
    \E m \in Ids :
        /\ Bettors(m) = Users
        /\ balance = TwoPow64
        /\ TotalStakedOf(m) = Uint64Of(0)
        /\ StakedSumOverflows(m)

====
